---------------------------- MODULE Spec2Model ----------------------------
(***************************************************************************)
(* Link checker of QuantEcon/meta                                          *)
(* (.github/actions/link-checker/link_checker.py): the bot-blocking        *)
(* classifier is_likely_bot_blocked, check_link, generate_ai_suggestions   *)
(* and the loop of main; then, each with a specification of its own, the   *)
(* code-style checker (style_checker.py), check_translation_status.py,     *)
(* apply-unified-labels.py, create_translation_pr.py and the style-guide   *)
(* checker (check_style.py).                                               *)
(*                                                                         *)
(* A Python str is a sequence of one-character strings, so that lower(),   *)
(* the `in` substring test, startswith() and replace() are computed.  An   *)
(* optional value is None (the empty tuple) or Some(v) (a 1-tuple).        *)
(***************************************************************************)
EXTENDS Integers, Sequences, FiniteSets, TLC

VARIABLES
    \* one call of is_likely_bot_blocked: its four arguments and its result
    url, response_content, status_code, error, ret, pc,
    \* main(): the command line, the HTML file, the loop and its lists
    argv, html, silent_codes, links, idx, result, broken_results,
    redirect_results, ai_suggestions, output, requests, delays, mpc,
    \* style_checker.py: the extracted code blocks, the arguments, what the
    \* tools report, and the two runs of test_exclude_patterns
    code_blocks, exclude_patterns, checkers, flagged, run1, run2, spc,
    \* check_translation_status.py: the token, the pull request's files and
    \* the table of contents with whether their requests succeed, the file
    \* named by GITHUB_OUTPUT, and the run
    github_token, pr_files, pr_ok, toc_data, toc_ok, github_output,
    modified_files, fetched, exit_code, tpc,
    \* apply-unified-labels.py: the arguments, the answer typed at the
    \* prompt, the loops of main and apply_labels_to_repo, the kinds of
    \* request sent, what create_label returned, and the end of the run
    label_args, confirm, repos_to_process, repo_idx, label_idx, success,
    overall_success, sent, calls, returned, message, label_exit, lpc,
    \* create_translation_pr.py: the environment and the arguments, the
    \* branches of the target repository, the loop over the files, the
    \* requests made so far, the pull requests opened, and the end of the run
    openai_api_key, pr_token, files_arg, pr_number, branches, file_idx,
    updated_files, log, pulls, pr_exit, ppc,
    \* check_style.py: the inputs of the action, the markdown files found and
    \* their lines on disk, the suggestions, the changes counted, the files
    \* written, the commits tried and made, the review posted, the outputs
    \* written, the number of changes in the last line of the log, the end
    style_mode, confidence_threshold, github_output_set, in_pr, docs, disk,
    all_suggestions, changes_made, written, commit_attempts, commits, review,
    outputs, logged_changes, guide_exit, gpc

cvars == <<url, response_content, status_code, error, ret, pc>>
mvars == <<argv, html, silent_codes, links, idx, result, broken_results,
           redirect_results, ai_suggestions, output, requests, delays, mpc>>
svars == <<code_blocks, exclude_patterns, checkers, flagged, run1, run2, spc>>
\* the scripts other than the link checker
tvars == <<github_token, pr_files, pr_ok, toc_data, toc_ok, github_output,
           modified_files, fetched, exit_code, tpc>>
lvars == <<label_args, confirm, repos_to_process, repo_idx, label_idx, success,
           overall_success, sent, calls, returned, message, label_exit, lpc>>
pvars == <<openai_api_key, pr_token, files_arg, pr_number, branches, file_idx,
           updated_files, log, pulls, pr_exit, ppc>>
gvars == <<style_mode, confidence_threshold, github_output_set, in_pr, docs,
           disk, all_suggestions, changes_made, written, commit_attempts,
           commits, review, outputs, logged_changes, guide_exit,
           gpc>>
ovars == <<svars, tvars, lvars, pvars, gvars>>
\* all the variables but those of one script
but_style == <<cvars, mvars, tvars, lvars, pvars, gvars>>
but_status == <<cvars, mvars, svars, lvars, pvars, gvars>>
but_labels == <<cvars, mvars, svars, tvars, pvars, gvars>>
but_pr == <<cvars, mvars, svars, tvars, lvars, gvars>>
but_guide == <<cvars, mvars, svars, tvars, lvars, pvars>>
vars == <<cvars, mvars, ovars>>

---------------------------------------------------------------------------
(* Python values *)

None == <<>>
Some(v) == <<v>>

\* bool(x) of an optional str: None and '' are falsy
truthy(x) == x # None /\ x[1] # <<>>

\* str(x) of an optional str
str(x) == IF x = None THEN <<"N","o","n","e">> ELSE x[1]

UpperCase == <<"A","B","C","D","E","F","G","H","I","J","K","L","M","N","O","P","Q","R","S","T","U","V","W","X","Y","Z">>
LowerCase == <<"a","b","c","d","e","f","g","h","i","j","k","l","m","n","o","p","q","r","s","t","u","v","w","x","y","z">>

\* the lower-case letter of each upper-case letter
ToLower ==
    [c \in {UpperCase[k] : k \in 1..Len(UpperCase)} |->
        LowerCase[CHOOSE k \in 1..Len(UpperCase) : UpperCase[k] = c]]

\* str.lower()
lower(s) ==
    [p \in 1..Len(s) |-> IF s[p] \in DOMAIN ToLower THEN ToLower[s[p]] ELSE s[p]]

\* sub in s
In(sub, s) ==
    \E p \in 0..(Len(s) - Len(sub)) : SubSeq(s, p + 1, p + Len(sub)) = sub

\* s.startswith(prefix)
startswith(s, prefix) ==
    Len(prefix) <= Len(s) /\ SubSeq(s, 1, Len(prefix)) = prefix

\* s[:n]
Take(s, n) == SubSeq(s, 1, IF Len(s) < n THEN Len(s) ELSE n)

\* s.replace(old, new), old not empty
RECURSIVE replace(_, _, _)
replace(s, old, new) ==
    IF Len(s) < Len(old) THEN s
    ELSE IF startswith(s, old)
         THEN new \o replace(SubSeq(s, Len(old) + 1, Len(s)), old, new)
         ELSE <<s[1]>> \o replace(Tail(s), old, new)

\* s.split(',')
RECURSIVE split(_)
split(s) ==
    IF \E p \in 1..Len(s) : s[p] = ","
    THEN LET p == CHOOSE q \in 1..Len(s) :
                    s[q] = "," /\ \A r \in 1..(q - 1) : s[r] # ","
         IN  <<SubSeq(s, 1, p - 1)>> \o split(SubSeq(s, p + 1, Len(s)))
    ELSE <<s>>

\* s.strip(), of the blanks
RECURSIVE strip(_)
strip(s) ==
    IF s # <<>> /\ s[1] = " " THEN strip(Tail(s))
    ELSE IF s # <<>> /\ s[Len(s)] = " " THEN strip(SubSeq(s, 1, Len(s) - 1))
    ELSE s

Digits == <<"0","1","2","3","4","5","6","7","8","9">>

DigitValue(c) == (CHOOSE k \in 1..Len(Digits) : Digits[k] = c) - 1

\* whether int(s) accepts s: here, a non-empty run of decimal digits
is_decimal(s) ==
    s # <<>> /\ \A p \in 1..Len(s) : \E k \in 1..Len(Digits) : Digits[k] = s[p]

\* int(s) of a run of decimal digits
RECURSIVE int(_)
int(s) ==
    IF Len(s) = 1 THEN DigitValue(s[1])
    ELSE 10 * int(SubSeq(s, 1, Len(s) - 1)) + DigitValue(s[Len(s)])

\* str(n) of n >= 0, as an f-string writes it
RECURSIVE format_int(_)
format_int(n) ==
    IF n < 10 THEN <<Digits[n + 1]>>
    ELSE format_int(n \div 10) \o <<Digits[(n % 10) + 1]>>

---------------------------------------------------------------------------
(* is_likely_bot_blocked *)

domain_indicators ==
    << <<"n","e","t","f","l","i","x",".","c","o","m">>, <<"a","m","a","z","o","n",".","c","o","m">>, <<"f","a","c","e","b","o","o","k",".","c","o","m">>, <<"t","w","i","t","t","e","r",".","c","o","m">>,
       <<"i","n","s","t","a","g","r","a","m",".","c","o","m">>, <<"y","o","u","t","u","b","e",".","c","o","m">>, <<"l","i","n","k","e","d","i","n",".","c","o","m">>, <<"p","i","n","t","e","r","e","s","t",".","c","o","m">>,
       <<"r","e","d","d","i","t",".","c","o","m">>, <<"w","i","k","i","p","e","d","i","a",".","o","r","g">> >>

legitimate_domains ==
    << <<"p","y","t","h","o","n",".","o","r","g">>, <<"j","u","p","y","t","e","r",".","o","r","g">>, <<"g","i","t","h","u","b",".","c","o","m">>, <<"d","o","c","s",".","p","y","t","h","o","n",".","o","r","g">>,
       <<"s","t","a","c","k","o","v","e","r","f","l","o","w",".","c","o","m">>, <<"r","e","a","d","t","h","e","d","o","c","s",".","o","r","g">>, <<"a","r","x","i","v",".","o","r","g">>, <<"d","o","i",".","o","r","g">>,
       <<"n","u","m","p","y",".","o","r","g">>, <<"s","c","i","p","y",".","o","r","g">>, <<"m","a","t","p","l","o","t","l","i","b",".","o","r","g">>, <<"p","a","n","d","a","s",".","p","y","d","a","t","a",".","o","r","g">> >>

\* the list without its middle entry
bot_blocking_codes_no_451 == <<429, 503>>

bot_blocking_codes == <<429, 451, 503>>

\* the loop leaving after its first iteration, whatever the test gave
bot_prone_match_first_only(u) == In(domain_indicators[1], lower(u))

\* the indicator looked for in the URL as written
bot_prone_match_case_sensitive(u) ==
    \E k \in 1..Len(domain_indicators) : In(domain_indicators[k], u)

\* for indicator in domain_indicators: if indicator in url.lower(): return True
bot_prone_match(u) ==
    LET url_lower == lower(u)
    IN  \E k \in 1..Len(domain_indicators) : In(domain_indicators[k], url_lower)

\* 'Connection Error' looked for in the lower-cased error text
legitimate_match_lowered_error(u, e) ==
    LET url_lower == lower(u)
    IN  \E k \in 1..Len(legitimate_domains) :
            /\ In(legitimate_domains[k], url_lower)
            /\ truthy(e)
            /\ In(<<"C","o","n","n","e","c","t","i","o","n"," ","E","r","r","o","r">>, lower(str(e)))

\* the error test without the domain test
legitimate_match_any_domain(u, e) ==
    truthy(e) /\ In(<<"C","o","n","n","e","c","t","i","o","n"," ","E","r","r","o","r">>, str(e))

\* the error text compared in lower case on both sides
legitimate_match_any_case(u, e) ==
    LET url_lower == lower(u)
    IN  \E k \in 1..Len(legitimate_domains) :
            /\ In(legitimate_domains[k], url_lower)
            /\ truthy(e)
            /\ In(<<"c","o","n","n","e","c","t","i","o","n"," ","e","r","r","o","r">>, lower(str(e)))

\* for domain in legitimate_domains:
\*     if domain in url.lower() and error and 'Connection Error' in str(error)
legitimate_match(u, e) ==
    LET url_lower == lower(u)
    IN  \E k \in 1..Len(legitimate_domains) :
            /\ In(legitimate_domains[k], url_lower)
            /\ truthy(e)
            /\ In(<<"C","o","n","n","e","c","t","i","o","n"," ","E","r","r","o","r">>, str(e))

\* the test without .lower()
encoding_match_case_sensitive(e) == truthy(e) /\ In(<<"e","n","c","o","d","i","n","g">>, str(e))

\* if error and 'encoding' in str(error).lower()
encoding_match(e) == truthy(e) /\ In(<<"e","n","c","o","d","i","n","g">>, lower(str(e)))

\* if status_code in bot_blocking_codes
status_match(sc) ==
    \E k \in 1..Len(bot_blocking_codes) : Some(bot_blocking_codes[k]) = sc

\* the last return giving True
is_likely_bot_blocked_default_true(u, rc, sc, e) ==
    IF bot_prone_match(u) THEN TRUE
    ELSE IF legitimate_match(u, e) THEN TRUE
    ELSE IF encoding_match(e) THEN TRUE
    ELSE IF status_match(sc) THEN TRUE
    ELSE TRUE

\* a block page in the response body giving True
is_likely_bot_blocked_reading_content(u, rc, sc, e) ==
    IF rc # None /\ In(<<"A","c","c","e","s","s"," ","d","e","n","i","e","d">>, rc[1]) THEN TRUE
    ELSE IF bot_prone_match(u) THEN TRUE
    ELSE IF legitimate_match(u, e) THEN TRUE
    ELSE IF encoding_match(e) THEN TRUE
    ELSE IF status_match(sc) THEN TRUE
    ELSE FALSE

\* a URL with a legitimate domain decided by the second rule alone
is_likely_bot_blocked_legitimate_decides(u, rc, sc, e) ==
    IF \E k \in 1..Len(legitimate_domains) : In(legitimate_domains[k], lower(u))
    THEN legitimate_match(u, e)
    ELSE IF bot_prone_match(u) THEN TRUE
    ELSE IF encoding_match(e) THEN TRUE
    ELSE IF status_match(sc) THEN TRUE
    ELSE FALSE

is_likely_bot_blocked(u, rc, sc, e) ==
    IF bot_prone_match(u) THEN TRUE
    ELSE IF legitimate_match(u, e) THEN TRUE
    ELSE IF encoding_match(e) THEN TRUE
    ELSE IF status_match(sc) THEN TRUE
    ELSE FALSE

---------------------------------------------------------------------------
(* The inputs of the classifier calls *)

Wrappers ==
    { <<<<"h","t","t","p","s",":","/","/","w","w","w",".">>, <<"/">>>>,
      <<<<"h","t","t","p","s",":","/","/">>, <<"/","u","s","e","r","/","r","e","p","o">>>>,
      <<<<"h","t","t","p",":","/","/">>, <<"/","?","r","e","f","=","t","w","i","t","t","e","r",".","c","o","m">>>>,
      <<<<"H","T","T","P","S",":","/","/","W","W","W",".">>, <<"/","m","i","r","r","o","r","/","G","i","t","H","u","b",".","c","o","m","/","x">>>> }

OtherHosts ==
    { <<"e","x","a","m","p","l","e",".","c","o","m">>, <<"u","n","k","n","o","w","n","-","d","o","m","a","i","n",".","c","o","m">>, <<"c","o","d","e",".","t","u","t","s","p","l","u","s",".","c","o","m">>,
      <<"N","E","T","F","L","I","X",".","C","O","M">>, <<"W","i","k","i","p","e","d","i","a",".","O","r","g">>, <<"P","Y","T","H","O","N",".","O","R","G">>, <<"D","o","c","s",".","P","y","t","h","o","n",".","o","r","g">> }

Hosts ==
    {domain_indicators[k] : k \in 1..Len(domain_indicators)}
        \cup {legitimate_domains[k] : k \in 1..Len(legitimate_domains)}
        \cup OtherHosts

\* URLs whose letter case or whose host differs from the listed domain
OtherUrls ==
    { <<"H","T","T","P","S",":","/","/","W","W","W",".","N","E","T","F","L","I","X",".","C","O","M","/">>,
      <<"h","t","t","p","s",":","/","/","e","x","a","m","p","l","e",".","c","o","m","/","?","r","e","f","=","n","e","t","f","l","i","x",".","c","o","m">>,
      <<"h","t","t","p","s",":","/","/","e","x","a","m","p","l","e",".","c","o","m","/","w","a","t","c","h","/","N","e","t","f","l","i","x",".","C","o","m","/","1">> }

Urls == {w[1] \o h \o w[2] : w \in Wrappers, h \in Hosts} \cup OtherUrls

Contents ==
    { None, Some(<<>>), Some(<<"<","h","t","m","l",">","A","c","c","e","s","s"," ","d","e","n","i","e","d","<","/","h","t","m","l",">">>),
      Some(<<"4","2","9"," ","n","e","t","f","l","i","x",".","c","o","m",":"," ","C","o","n","n","e","c","t","i","o","n"," ","E","r","r","o","r",","," ","e","n","c","o","d","i","n","g">>) }

StatusCodes == {None} \cup {Some(c) : c \in {200, 301, 403, 404, 429, 451, 500, 503}}

Errors ==
    {None} \cup
    {Some(m) : m \in
        { <<>>, <<"t","i","m","e","o","u","t">>, <<"C","o","n","n","e","c","t","i","o","n"," ","E","r","r","o","r">>, <<"c","o","n","n","e","c","t","i","o","n"," ","e","r","r","o","r">>,
          <<"C","O","N","N","E","C","T","I","O","N"," ","E","R","R","O","R">>, <<"e","n","c","o","d","i","n","g"," ","i","s","s","u","e">>, <<"s","o","m","e"," ","e","n","c","o","d","i","n","g"," ","p","r","o","b","l","e","m">>,
          <<"B","a","d"," ","E","N","C","O","D","I","N","G"," ","i","n"," ","h","e","a","d","e","r">>,
          <<"E","n","c","o","d","i","n","g"," ","i","s","s","u","e",":"," ","'","u","t","f","-","8","'"," ","c","o","d","e","c"," ","c","a","n","'","t"," ","d","e","c","o","d","e"," ","b","y","t","e"," ","0","x","f","f">>,
          <<"H","T","T","P","S","C","o","n","n","e","c","t","i","o","n","P","o","o","l",":"," ","C","o","n","n","e","c","t","i","o","n"," ","E","r","r","o","r"," ","(","m","a","x"," ","r","e","t","r","i","e","s"," ","e","x","c","e","e","d","e","d",")">> }}

---------------------------------------------------------------------------
(* Spec: calls of the classifier, as the test's loops make them *)

\* style_checker.py is not running
StyleIdle ==
    /\ code_blocks = <<>> /\ exclude_patterns = <<>> /\ checkers = <<>>
    /\ flagged = {} /\ run1 = None /\ run2 = None /\ spc = "off"

\* check_translation_status.py is not running
StatusIdle ==
    /\ github_token = FALSE /\ pr_files = <<>> /\ pr_ok = FALSE
    /\ toc_data = None /\ toc_ok = FALSE /\ github_output = None
    /\ modified_files = <<>> /\ fetched = <<>> /\ exit_code = None
    /\ tpc = "off"

\* apply-unified-labels.py is not running
LabelsIdle ==
    /\ label_args = None /\ confirm = <<>> /\ repos_to_process = <<>>
    /\ repo_idx = 0 /\ label_idx = 0 /\ success = TRUE
    /\ overall_success = TRUE /\ sent = {} /\ calls = 0 /\ returned = {}
    /\ message = None /\ label_exit = None /\ lpc = "off"

\* create_translation_pr.py is not running
PrIdle ==
    /\ openai_api_key = FALSE /\ pr_token = FALSE /\ files_arg = None
    /\ pr_number = 0 /\ branches = {} /\ file_idx = 0
    /\ updated_files = <<>> /\ log = <<>> /\ pulls = <<>>
    /\ pr_exit = None /\ ppc = "off"

\* check_style.py is not running
GuideIdle ==
    /\ style_mode = "off" /\ confidence_threshold = "high"
    /\ github_output_set = FALSE /\ in_pr = FALSE /\ docs = <<>>
    /\ disk = <<>> /\ all_suggestions = <<>> /\ changes_made = 0
    /\ written = {} /\ commit_attempts = 0 /\ commits = 0 /\ review = None
    /\ outputs = None /\ logged_changes = None /\ guide_exit = None
    /\ gpc = "off"

OthersIdle == StyleIdle /\ StatusIdle /\ LabelsIdle /\ PrIdle /\ GuideIdle

MainIdle ==
    /\ argv = None /\ html = None
    /\ silent_codes = <<>> /\ links = <<>> /\ idx = 0
    /\ result = None /\ broken_results = <<>> /\ redirect_results = <<>>
    /\ ai_suggestions = <<>> /\ output = None /\ requests = 0 /\ delays = 0
    /\ mpc = "off"

ClassifierIdle ==
    /\ url = <<>> /\ response_content = None /\ status_code = None
    /\ error = None /\ ret = FALSE /\ pc = "idle"

\* one script runs, the others do not
LinkCheckerIdle == ClassifierIdle /\ MainIdle
StyleAlone == LinkCheckerIdle /\ StatusIdle /\ LabelsIdle /\ PrIdle /\ GuideIdle
StatusAlone == LinkCheckerIdle /\ StyleIdle /\ LabelsIdle /\ PrIdle /\ GuideIdle
LabelsAlone == LinkCheckerIdle /\ StyleIdle /\ StatusIdle /\ PrIdle /\ GuideIdle
PrAlone == LinkCheckerIdle /\ StyleIdle /\ StatusIdle /\ LabelsIdle /\ GuideIdle
GuideAlone == LinkCheckerIdle /\ StyleIdle /\ StatusIdle /\ LabelsIdle /\ PrIdle

Init == ClassifierIdle /\ MainIdle /\ OthersIdle

\* result = is_likely_bot_blocked(url, content, status_code, error)
Call ==
    /\ pc = "idle"
    /\ \E u \in Urls, rc \in Contents, sc \in StatusCodes, e \in Errors :
        /\ url' = u
        /\ response_content' = rc
        /\ status_code' = sc
        /\ error' = e
        /\ ret' = is_likely_bot_blocked(u, rc, sc, e)
    /\ pc' = "returned"
    /\ UNCHANGED <<mvars, ovars>>

\* the next test case of the loop
NextCase ==
    /\ pc = "returned"
    /\ url' = <<>> /\ response_content' = None /\ status_code' = None
    /\ error' = None /\ ret' = FALSE /\ pc' = "idle"
    /\ UNCHANGED <<mvars, ovars>>

Next == Call \/ NextCase

Spec == Init /\ [][Next]_vars

---------------------------------------------------------------------------
(* check_link *)

\* is_external_link(url)
is_external_link(u) == startswith(u, <<"h","t","t","p",":","/","/">>) \/ startswith(u, <<"h","t","t","p","s",":","/","/">>)

\* requests' Response.ok: raise_for_status() raises for 400 <= status < 600
response_ok(status) == ~(400 <= status /\ status < 600)

\* x in silent_codes
in_list(x, list) == \E k \in 1..Len(list) : list[k] = x

\* the try body with `elif not response.ok` tried before the classifier's answer
check_link_response_ok_before_blocked(u, response, codes) ==
    LET likely == is_likely_bot_blocked(u, Some(response.text),
                                        Some(response.status_code), None)
        first == [url |-> u,
                  status_code |-> response.status_code,
                  final_url |-> response.url,
                  redirect_count |-> response.history,
                  redirected |-> response.history > 0,
                  broken |-> FALSE,
                  silent |-> FALSE,
                  error |-> None,
                  likely_bot_blocked |-> likely]
    IN  IF in_list(response.status_code, codes)
        THEN [first EXCEPT !.silent = TRUE]
        ELSE IF ~response_ok(response.status_code)
        THEN [first EXCEPT !.broken = TRUE]
        ELSE IF likely
        THEN [first EXCEPT !.silent = TRUE]
        ELSE first

\* the try body without the test of silent_codes
check_link_response_no_silent_codes(u, response, codes) ==
    LET likely == is_likely_bot_blocked(u, Some(response.text),
                                        Some(response.status_code), None)
        first == [url |-> u,
                  status_code |-> response.status_code,
                  final_url |-> response.url,
                  redirect_count |-> response.history,
                  redirected |-> response.history > 0,
                  broken |-> FALSE,
                  silent |-> FALSE,
                  error |-> None,
                  likely_bot_blocked |-> likely]
    IN  IF likely
        THEN [first EXCEPT !.silent = TRUE]
        ELSE IF ~response_ok(response.status_code)
        THEN [first EXCEPT !.broken = TRUE]
        ELSE first

\* the result of the try body, given the response of session.get
check_link_response(u, response, codes) ==
    LET likely == is_likely_bot_blocked(u, Some(response.text),
                                        Some(response.status_code), None)
        first == [url |-> u,
                  status_code |-> response.status_code,
                  final_url |-> response.url,
                  redirect_count |-> response.history,
                  redirected |-> response.history > 0,
                  broken |-> FALSE,
                  silent |-> FALSE,
                  error |-> None,
                  likely_bot_blocked |-> likely]
    IN  IF in_list(response.status_code, codes)
        THEN [first EXCEPT !.silent = TRUE]
        ELSE IF likely
        THEN [first EXCEPT !.silent = TRUE]
        ELSE IF ~response_ok(response.status_code)
        THEN [first EXCEPT !.broken = TRUE]
        ELSE first

\* the except result with silent negated like broken
failed_result_silent_negated(u, likely_blocked, error_text) ==
    [url |-> u, status_code |-> 0, final_url |-> u,
     redirect_count |-> 0, redirected |-> FALSE, broken |-> ~likely_blocked,
     silent |-> ~likely_blocked, error |-> Some(error_text),
     likely_bot_blocked |-> likely_blocked]

\* the result the except clauses build from the classifier's answer
failed_result(u, likely_blocked, error_text) ==
    [url |-> u, status_code |-> 0, final_url |-> u,
     redirect_count |-> 0, redirected |-> FALSE, broken |-> ~likely_blocked,
     silent |-> likely_blocked, error |-> Some(error_text),
     likely_bot_blocked |-> likely_blocked]

\* the except clauses with the timeout classified as a connection error
check_link_exception_timeout_as_connection(u, raised) ==
    IF raised.kind = "Timeout"
    THEN failed_result(u,
             is_likely_bot_blocked(u, None, None, Some(<<"C","o","n","n","e","c","t","i","o","n"," ","E","r","r","o","r">>)),
             <<"T","i","m","e","o","u","t">>)
    ELSE IF raised.kind = "ConnectionError"
    THEN failed_result(u,
             is_likely_bot_blocked(u, None, None, Some(<<"C","o","n","n","e","c","t","i","o","n"," ","E","r","r","o","r">>)),
             <<"C","o","n","n","e","c","t","i","o","n"," ","E","r","r","o","r">>)
    ELSE IF raised.kind = "UnicodeDecodeError"
    THEN [url |-> u, status_code |-> 0, final_url |-> u,
          redirect_count |-> 0, redirected |-> FALSE, broken |-> FALSE,
          silent |-> TRUE, error |-> Some(<<"E","n","c","o","d","i","n","g"," ","i","s","s","u","e",":"," ">> \o raised.message),
          likely_bot_blocked |-> TRUE]
    ELSE failed_result(u,
             is_likely_bot_blocked(u, None, None, Some(raised.message)),
             raised.message)

\* the result of the except clauses, tried in the order they are written
check_link_exception(u, raised) ==
    IF raised.kind = "Timeout"
    THEN failed_result(u, is_likely_bot_blocked(u, None, None, Some(<<"t","i","m","e","o","u","t">>)),
                       <<"T","i","m","e","o","u","t">>)
    ELSE IF raised.kind = "ConnectionError"
    THEN failed_result(u,
             is_likely_bot_blocked(u, None, None, Some(<<"C","o","n","n","e","c","t","i","o","n"," ","E","r","r","o","r">>)),
             <<"C","o","n","n","e","c","t","i","o","n"," ","E","r","r","o","r">>)
    ELSE IF raised.kind = "UnicodeDecodeError"
    THEN [url |-> u, status_code |-> 0, final_url |-> u,
          redirect_count |-> 0, redirected |-> FALSE, broken |-> FALSE,
          silent |-> TRUE, error |-> Some(<<"E","n","c","o","d","i","n","g"," ","i","s","s","u","e",":"," ">> \o raised.message),
          likely_bot_blocked |-> TRUE]
    ELSE failed_result(u,
             is_likely_bot_blocked(u, None, None, Some(raised.message)),
             raised.message)

\* check_link(url, timeout, max_redirects, silent_codes), given what
\* session.get did: returned a response or raised
check_link(u, outcome, codes) ==
    IF outcome.kind = "response"
    THEN check_link_response(u, outcome, codes)
    ELSE check_link_exception(u, outcome)

---------------------------------------------------------------------------
(* extract_links_from_html *)

TextLimit == 100

\* the anchors with an external href, in document order; [] when the file
\* cannot be read
RECURSIVE external_anchors(_)
external_anchors(anchors) ==
    IF anchors = <<>> THEN <<>>
    ELSE IF is_external_link(Head(anchors).href)
         THEN <<[url |-> Head(anchors).href,
                 text |-> Take(Head(anchors).text, TextLimit)]>>
                  \o external_anchors(Tail(anchors))
         ELSE external_anchors(Tail(anchors))

\* the extraction with a repeated URL kept once
extract_links_from_html_unique(file) ==
    LET found == IF file = None THEN <<>> ELSE external_anchors(file[1])
        first_of(k) == \A j \in 1..(k - 1) : found[j].url # found[k].url
        RECURSIVE kept(_)
        kept(k) == IF k > Len(found) THEN <<>>
                   ELSE (IF first_of(k) THEN <<found[k]>> ELSE <<>>) \o kept(k + 1)
    IN  kept(1)

\* the external links of the file, one per anchor
extract_links_from_html(file) ==
    IF file = None THEN <<>> ELSE external_anchors(file[1])

---------------------------------------------------------------------------
(* generate_ai_suggestions *)

suggestion_domains ==
    << <<"g","i","t","h","u","b",".","c","o","m">>, <<"p","y","t","h","o","n",".","o","r","g">>, <<"j","u","p","y","t","e","r",".","o","r","g">>, <<"r","e","a","d","t","h","e","d","o","c","s",".","o","r","g">>,
       <<"s","t","a","c","k","o","v","e","r","f","l","o","w",".","c","o","m">>, <<"w","i","k","i","p","e","d","i","a",".","o","r","g">>, <<"a","r","x","i","v",".","o","r","g">>, <<"d","o","i",".","o","r","g">> >>

\* the fixes proposed for one broken link
url_fixes(u) ==
    LET is_legitimate_domain ==
            \E k \in 1..Len(suggestion_domains) :
                In(suggestion_domains[k], lower(u))
        upgraded == replace(u, <<"h","t","t","p",":","/","/">>, <<"h","t","t","p","s",":","/","/">>)
    IN  IF In(<<"g","i","t","h","u","b",".","c","o","m">>, u)
        THEN (IF In(<<"/","b","l","o","b","/","m","a","s","t","e","r","/">>, u)
              THEN <<[type |-> <<"b","r","a","n","c","h","_","u","p","d","a","t","e">>,
                      url |-> replace(u, <<"/","b","l","o","b","/","m","a","s","t","e","r","/">>, <<"/","b","l","o","b","/","m","a","i","n","/">>),
                      reason |-> <<"G","i","t","H","u","b"," ","d","e","f","a","u","l","t"," ","b","r","a","n","c","h"," ","c","h","a","n","g","e","d"," ","f","r","o","m"," ","m","a","s","t","e","r"," ","t","o"," ","m","a","i","n">>]>>
              ELSE <<>>)
             \o
             (IF In(<<"g","i","t","h","u","b",".","i","o">>, u) /\ In(<<"h","t","t","p",":","/","/">>, u)
              THEN <<[type |-> <<"h","t","t","p","s","_","u","p","g","r","a","d","e">>, url |-> upgraded,
                      reason |-> <<"G","i","t","H","u","b"," ","P","a","g","e","s"," ","n","o","w"," ","r","e","q","u","i","r","e","s"," ","H","T","T","P","S">>]>>
              ELSE <<>>)
        ELSE IF In(<<"r","e","a","d","t","h","e","d","o","c","s",".","o","r","g">>, u) /\ In(<<"h","t","t","p",":","/","/">>, u)
        THEN <<[type |-> <<"h","t","t","p","s","_","u","p","g","r","a","d","e">>, url |-> upgraded,
                reason |-> <<"R","e","a","d"," ","t","h","e"," ","D","o","c","s"," ","n","o","w"," ","r","e","q","u","i","r","e","s"," ","H","T","T","P","S">>]>>
        ELSE IF In(<<"d","o","c","s",".","p","y","t","h","o","n",".","o","r","g">>, u)
        THEN (IF In(<<"/","2",".","7","/">>, u)
              THEN <<[type |-> <<"v","e","r","s","i","o","n","_","u","p","d","a","t","e">>,
                      url |-> replace(u, <<"/","2",".","7","/">>, <<"/","3","/">>),
                      reason |-> <<"P","y","t","h","o","n"," ","2",".","7"," ","i","s"," ","d","e","p","r","e","c","a","t","e","d",","," ","c","o","n","s","i","d","e","r"," ","P","y","t","h","o","n"," ","3"," ","d","o","c","u","m","e","n","t","a","t","i","o","n">>]>>
              ELSE <<>>)
        ELSE IF startswith(u, <<"h","t","t","p",":","/","/">>) /\ ~In(<<"l","o","c","a","l","h","o","s","t">>, u)
        THEN (IF is_legitimate_domain
              THEN <<[type |-> <<"h","t","t","p","s","_","u","p","g","r","a","d","e">>, url |-> upgraded,
                      reason |-> <<"H","T","T","P","S"," ","i","s"," ","m","o","r","e"," ","s","e","c","u","r","e"," ","a","n","d"," ","w","i","d","e","l","y"," ","s","u","p","p","o","r","t","e","d">>]>>
              ELSE <<[type |-> <<"m","a","n","u","a","l","_","c","h","e","c","k">>, url |-> upgraded,
                      reason |-> <<"T","r","y"," ","H","T","T","P","S"," ","v","e","r","s","i","o","n"," ","o","r"," ","v","e","r","i","f","y"," ","t","h","e"," ","l","i","n","k"," ","m","a","n","u","a","l","l","y">>]>>)
        ELSE <<>>

\* for result in broken_results
RECURSIVE broken_suggestions(_)
broken_suggestions(results) ==
    IF results = <<>> THEN <<>>
    ELSE LET r == Head(results)
             fixes == url_fixes(r.url)
         IN  (IF r.likely_bot_blocked \/ fixes = <<>>
              THEN <<>>
              ELSE <<[original_url |-> r.url,
                      issue |-> <<"B","r","o","k","e","n"," ","l","i","n","k"," ","(","S","t","a","t","u","s",":"," ">>
                                  \o format_int(r.status_code) \o <<")">>,
                      suggestions |-> fixes]>>)
             \o broken_suggestions(Tail(results))

\* for result in redirect_results
RECURSIVE redirect_suggestions(_)
redirect_suggestions(results) ==
    IF results = <<>> THEN <<>>
    ELSE LET r == Head(results)
         IN  (IF r.redirect_count > 0
              THEN <<[original_url |-> r.url,
                      issue |-> <<"R","e","d","i","r","e","c","t","e","d"," ">> \o format_int(r.redirect_count)
                                  \o <<" ","t","i","m","e","s">>,
                      suggestions |->
                          <<[type |-> <<"r","e","d","i","r","e","c","t","_","u","p","d","a","t","e">>, url |-> r.final_url,
                             reason |-> <<"U","p","d","a","t","e"," ","t","o"," ","f","i","n","a","l"," ","d","e","s","t","i","n","a","t","i","o","n"," ","t","o"," ","a","v","o","i","d"," ">>
                                          \o format_int(r.redirect_count)
                                          \o <<" ","r","e","d","i","r","e","c","t","(","s",")">>]>>]>>
              ELSE <<>>)
             \o redirect_suggestions(Tail(results))

generate_ai_suggestions(broken, redirected) ==
    broken_suggestions(broken) \o redirect_suggestions(redirected)

---------------------------------------------------------------------------
(* main *)

\* the most <a href> tags a file has
MaxLinks == 2

\* the default of --max-redirects
max_redirects == 5

file_path == "lecture.html"

\* [int(x.strip()) for x in args.silent_codes.split(',') if x.strip()];
\* None when int() raises ValueError
RECURSIVE parse_codes(_)
parse_codes(parts) ==
    IF parts = <<>> THEN Some(<<>>)
    ELSE LET x == strip(Head(parts))
             rest == parse_codes(Tail(parts))
         IN  IF x = <<>> THEN rest
             ELSE IF ~is_decimal(x) \/ rest = None THEN None
             ELSE Some(<<int(x)>> \o rest[1])

\* the values of --silent-codes: the default and others
SilentCodeArgs == { <<"4","0","3",",","5","0","3">>, <<" ","4","0","4",","," ","4","2","9"," ",",">>, <<"4","o","3">> }

\* the href and text of the <a href> tags of the file
Anchors ==
    { [href |-> <<"h","t","t","p","s",":","/","/","w","w","w",".","n","e","t","f","l","i","x",".","c","o","m","/","t","i","t","l","e","/","1">>, text |-> <<"f","i","l","m">>],
      [href |-> <<"h","t","t","p",":","/","/","g","i","t","h","u","b",".","c","o","m","/","Q","u","a","n","t","E","c","o","n","/","m","e","t","a","/","b","l","o","b","/","m","a","s","t","e","r","/","R","E","A","D","M","E",".","m","d">>,
       text |-> <<"r","e","a","d","m","e">>],
      [href |-> <<"h","t","t","p",":","/","/","e","x","a","m","p","l","e",".","c","o","m","/","p","a","g","e">>, text |-> <<>>],
      [href |-> <<"i","n","t","r","o",".","h","t","m","l","#","t","o","p">>, text |-> <<"t","o","p">>] }

RECURSIVE SeqsUpTo(_, _)
SeqsUpTo(S, n) ==
    IF n = 0 THEN {<<>>}
    ELSE LET shorter == SeqsUpTo(S, n - 1)
         IN  shorter \cup {Append(q, x) : q \in shorter, x \in S}

\* the file: unreadable (None) or its anchors
HtmlFiles == {None} \cup {Some(a) : a \in SeqsUpTo(Anchors, MaxLinks)}

RedirectTarget == <<"h","t","t","p","s",":","/","/","e","x","a","m","p","l","e",".","o","r","g","/","m","o","v","e","d">>

\* the status code and the number of redirects of the responses
Responses == { <<200, 0>>, <<200, max_redirects>>, <<404, 0>>, <<404, 1>>,
               <<403, 0>>, <<429, 0>> }

\* what session.get(url, ...) can do: return a response that followed at
\* most max_redirects redirects, or raise
Outcomes(u) ==
    { [kind |-> "response", status_code |-> sh[1], history |-> sh[2],
       url |-> IF sh[2] = 0 THEN u ELSE RedirectTarget,
       text |-> <<"<","h","t","m","l",">","<","/","h","t","m","l",">">>, message |-> <<>>] : sh \in Responses }
    \cup
    { [kind |-> k, status_code |-> 0, history |-> 0, url |-> u,
       text |-> <<>>, message |-> <<>>] : k \in {"Timeout", "ConnectionError"} }
    \cup
    { [kind |-> "UnicodeDecodeError", status_code |-> 0, history |-> 0, url |-> u,
       text |-> <<>>,
       message |-> <<"'","u","t","f","-","8","'"," ","c","o","d","e","c"," ","c","a","n","'","t"," ","d","e","c","o","d","e"," ","b","y","t","e"," ","0","x","f","f">>] }
    \cup
    { [kind |-> "Exception", status_code |-> 0, history |-> 0, url |-> u,
       text |-> <<>>, message |-> m] :
            m \in { <<"E","x","c","e","e","d","e","d"," ">> \o format_int(max_redirects) \o <<" ","r","e","d","i","r","e","c","t","s",".">>,
                    <<"u","n","k","n","o","w","n"," ","e","n","c","o","d","i","n","g",":"," ","x","-","u","s","e","r">> } }

InitLinks ==
    /\ ClassifierIdle /\ OthersIdle
    /\ argv \in [silent_codes : SilentCodeArgs, ai_suggestions : BOOLEAN]
    /\ html \in HtmlFiles
    /\ silent_codes = <<>> /\ links = <<>> /\ idx = 0
    /\ result = None /\ broken_results = <<>> /\ redirect_results = <<>>
    /\ ai_suggestions = <<>> /\ output = None /\ requests = 0 /\ delays = 0
    /\ mpc = "start"

\* the arguments are parsed and the links extracted; with no link the empty
\* report is printed at once
Start ==
    /\ mpc = "start"
    /\ LET codes == parse_codes(split(argv.silent_codes))
           found == extract_links_from_html(html)
       IN  IF codes = None
           THEN /\ mpc' = "error"
                /\ UNCHANGED <<silent_codes, links, output>>
           ELSE /\ silent_codes' = codes[1]
                /\ links' = found
                /\ IF found = <<>>
                   THEN /\ output' = Some([broken_results |-> <<>>,
                                            redirect_results |-> <<>>,
                                            ai_suggestions |-> <<>>,
                                            total_links |-> 0])
                        /\ mpc' = "done"
                   ELSE /\ output' = output
                        /\ mpc' = "loop"
    /\ UNCHANGED <<argv, html, idx, result, broken_results, redirect_results,
                   ai_suggestions, requests, delays>>
    /\ UNCHANGED <<cvars, ovars>>

\* the delay also taken after the last link
after_check_delay_after_last(i, n) == IF i < n THEN "sleep" ELSE "report"

\* if i < len(links) - 1: time.sleep(0.2); then the next link, or the end of
\* the loop
after_check(i, n) == IF i < n - 1 THEN "sleep" ELSE "report"

\* the list chosen with the redirect test tried first
result_list_redirect_first(r) ==
    IF r.redirected THEN "redirect_results"
    ELSE IF r.broken /\ ~r.silent THEN "broken_results"
    ELSE "none"

\* if result['broken'] and not result['silent']: ... elif result['redirected']:
\* the list the result is appended to
result_list(r) ==
    IF r.broken /\ ~r.silent THEN "broken_results"
    ELSE IF r.redirected THEN "redirect_results"
    ELSE "none"

\* one iteration of `for i, link_info in enumerate(links)`, up to the delay
CheckNext ==
    /\ mpc = "loop"
    /\ idx < Len(links)
    /\ \E outcome \in Outcomes(links[idx + 1].url) :
         LET link_info == links[idx + 1]
             checked == check_link(link_info.url, outcome, silent_codes)
             \* result['file'] = args.file_path; result['text'] = link_info['text']
             r == checked @@ [file |-> file_path, text |-> link_info.text]
         IN  /\ result' = Some(r)
             /\ broken_results' =
                    IF result_list(r) = "broken_results"
                    THEN Append(broken_results, r) ELSE broken_results
             /\ redirect_results' =
                    IF result_list(r) = "redirect_results"
                    THEN Append(redirect_results, r) ELSE redirect_results
    /\ requests' = requests + 1
    /\ idx' = idx + 1
    /\ mpc' = after_check(idx, Len(links))
    /\ UNCHANGED <<argv, html, silent_codes, links, ai_suggestions, output, delays>>
    /\ UNCHANGED <<cvars, ovars>>

\* time.sleep(0.2) between two links
Sleep ==
    /\ mpc = "sleep"
    /\ delays' = delays + 1
    /\ mpc' = "loop"
    /\ UNCHANGED <<argv, html, silent_codes, links, idx, result, broken_results,
                   redirect_results, ai_suggestions, output, requests>>
    /\ UNCHANGED <<cvars, ovars>>

\* the suggestions are generated and the report is printed
Report ==
    /\ mpc = "report"
    /\ ai_suggestions' =
            IF argv.ai_suggestions
            THEN generate_ai_suggestions(broken_results, redirect_results)
            ELSE <<>>
    /\ output' = Some([broken_results |-> broken_results,
                       redirect_results |-> redirect_results,
                       ai_suggestions |-> ai_suggestions',
                       total_links |-> Len(links)])
    /\ mpc' = "done"
    /\ UNCHANGED <<argv, html, silent_codes, links, idx, result, broken_results,
                   redirect_results, requests, delays>>
    /\ UNCHANGED <<cvars, ovars>>

NextLinks == Start \/ CheckNext \/ Sleep \/ Report

SpecLinks == InitLinks /\ [][NextLinks]_vars

---------------------------------------------------------------------------
(* Properties of the classifier, checked under Spec.                       *)
(* A URL "contains" a domain when its lower-cased text contains it: host   *)
(* names are case-insensitive.  An error "contains" a text as it stands.   *)

BotProne == {domain_indicators[k] : k \in 1..Len(domain_indicators)}
Legitimate == {legitimate_domains[k] : k \in 1..Len(legitimate_domains)}

UrlContains(u, d) == In(d, lower(u))
UrlHasBotProne(u) == \E d \in BotProne : UrlContains(u, d)
UrlHasLegitimate(u) == \E d \in Legitimate : UrlContains(u, d)
ErrorContains(e, text) == e # None /\ In(text, e[1])
ErrorContainsAnyCase(e, text) == e # None /\ In(text, lower(e[1]))
StatusIn(sc, codes) == \E c \in codes : sc = Some(c)
Returned == pc = "returned"

\* C1: a URL containing a bot-prone domain is classified True, whatever the
\* response body, the status code and the error are, all absent included.
C1_BotProneIsBlocked ==
    Returned /\ UrlHasBotProne(url) => ret = TRUE

C1_Witness ==
    /\ Returned /\ UrlHasBotProne(url)
    /\ response_content = None /\ status_code = None /\ error = None
    /\ ret = TRUE

\* C2 as stated: for a URL containing a legitimate domain, True when the
\* error contains "Connection Error", and False when there is no error and
\* the status code is absent or none of 429, 451, 503.
C2_Original ==
    Returned /\ UrlHasLegitimate(url) =>
        /\ ErrorContains(error, <<"C","o","n","n","e","c","t","i","o","n"," ","E","r","r","o","r">>) => ret = TRUE
        /\ error = None /\ ~StatusIn(status_code, {429, 451, 503}) => ret = FALSE

\* C2 amended: the False half holds for the URLs that contain no bot-prone
\* domain besides the legitimate one.
C2_LegitimateDomain ==
    Returned /\ UrlHasLegitimate(url) =>
        /\ ErrorContains(error, <<"C","o","n","n","e","c","t","i","o","n"," ","E","r","r","o","r">>) => ret = TRUE
        /\ error = None /\ ~StatusIn(status_code, {429, 451, 503})
              /\ ~UrlHasBotProne(url) => ret = FALSE

C2_Witness ==
    /\ Returned /\ UrlHasLegitimate(url) /\ ~UrlHasBotProne(url)
    /\ ErrorContains(error, <<"C","o","n","n","e","c","t","i","o","n"," ","E","r","r","o","r">>) /\ status_code = None
    /\ ret = TRUE

\* C3: an error containing "encoding" in any letter case gives True, for
\* every URL, status code and response body.
C3_EncodingError ==
    Returned /\ ErrorContainsAnyCase(error, <<"e","n","c","o","d","i","n","g">>) => ret = TRUE

C3_Witness ==
    /\ Returned /\ ErrorContains(error, <<"E","N","C","O","D","I","N","G">>)
    /\ ~UrlHasBotProne(url) /\ ~UrlHasLegitimate(url)
    /\ status_code = Some(200) /\ ret = TRUE

\* C4: for a URL in neither list and no error, the status codes 429, 451
\* and 503 give True and the status codes 200, 404 and 500 give False.
C4_StatusCodes ==
    Returned /\ ~UrlHasBotProne(url) /\ ~UrlHasLegitimate(url) /\ error = None =>
        /\ StatusIn(status_code, {429, 451, 503}) => ret = TRUE
        /\ StatusIn(status_code, {200, 404, 500}) => ret = FALSE

C4_Witness ==
    /\ Returned /\ ~UrlHasBotProne(url) /\ ~UrlHasLegitimate(url)
    /\ error = None /\ status_code = Some(451) /\ ret = TRUE

\* The decision table of the specification
DecisionTable(u, sc, e) ==
    \/ UrlHasBotProne(u)
    \/ UrlHasLegitimate(u) /\ ErrorContains(e, <<"C","o","n","n","e","c","t","i","o","n"," ","E","r","r","o","r">>)
    \/ ErrorContainsAnyCase(e, <<"e","n","c","o","d","i","n","g">>)
    \/ StatusIn(sc, {429, 451, 503})

\* C5: the classifier returns True exactly when one of the four rules of
\* the decision table applies, and False in every other case.
C5_DecisionTable ==
    Returned => (ret = TRUE <=> DecisionTable(url, status_code, error))

C5_Witness ==
    /\ Returned /\ ~UrlHasBotProne(url) /\ ~UrlHasLegitimate(url)
    /\ error = Some(<<"C","o","n","n","e","c","t","i","o","n"," ","E","r","r","o","r">>) /\ status_code = None
    /\ ret = FALSE

\* C6: every call, with any of the optional arguments absent, returns one
\* of the two booleans, and returns False when no rule applies.
C6_AlwaysBoolean ==
    Returned =>
        /\ ret \in BOOLEAN
        /\ ~DecisionTable(url, status_code, error) => ret = FALSE

C6_Witness ==
    /\ Returned /\ response_content = None /\ status_code = None
    /\ error = None /\ ~DecisionTable(url, status_code, error)
    /\ ret = FALSE

---------------------------------------------------------------------------
(* Properties of the link checker, checked under SpecLinks *)

\* the results handed to generate_ai_suggestions
Reported ==
    {broken_results[k] : k \in 1..Len(broken_results)}
        \cup {redirect_results[k] : k \in 1..Len(redirect_results)}

\* a result of the response path: the except clauses all set an error
FromResponse(r) == r.error = None

\* C8: a result of check_link that is likely bot-blocked is not broken, and
\* broken_results never holds a likely bot-blocked result.
C8_BlockedNeverBroken ==
    /\ result # None /\ result[1].likely_bot_blocked => ~result[1].broken
    /\ \A k \in 1..Len(broken_results) : ~broken_results[k].likely_bot_blocked

C8_Witness ==
    /\ mpc = "done" /\ result # None
    /\ result[1].likely_bot_blocked /\ result[1].status_code = 429
    /\ ~in_list(429, silent_codes)
    /\ ~result[1].broken /\ broken_results # <<>>

\* C9: with the suggestions enabled, no suggestion is made for the URL of a
\* result in broken_results or redirect_results that is likely bot-blocked.
C9_NoSuggestionForBlocked ==
    mpc = "done" /\ links # <<>> /\ argv.ai_suggestions =>
        \A r \in Reported :
            r.likely_bot_blocked =>
                \A k \in 1..Len(ai_suggestions) :
                    ai_suggestions[k].original_url # r.url

\* C10: a response whose status code is in silent_codes is silent and not
\* broken, whatever the classifier says, and is never in broken_results.
C10_SilentCodeNeverBroken ==
    /\ result # None /\ FromResponse(result[1])
          /\ in_list(result[1].status_code, silent_codes)
       => result[1].silent /\ ~result[1].broken
    /\ \A k \in 1..Len(broken_results) :
          FromResponse(broken_results[k])
              => ~in_list(broken_results[k].status_code, silent_codes)

C10_Witness ==
    /\ mpc = "done" /\ result # None /\ FromResponse(result[1])
    /\ in_list(result[1].status_code, silent_codes)
    /\ ~response_ok(result[1].status_code)
    /\ ~result[1].likely_bot_blocked
    /\ result[1].silent /\ ~result[1].broken

\* C11: the links are checked one after another in document order, with
\* one delay between two successive checks and none after the last: n links
\* give n checks and n - 1 delays.
C11_SequentialWithDelays ==
    /\ requests = idx
    /\ result # None => idx >= 1 /\ result[1].url = links[idx].url
    /\ mpc = "loop" => idx < Len(links) /\ delays = idx
    /\ mpc = "sleep" => idx >= 1 /\ idx < Len(links) /\ delays = idx - 1
    /\ mpc \in {"report", "done"} /\ links # <<>> =>
          requests = Len(links) /\ delays = Len(links) - 1

C11_Witness ==
    /\ mpc = "done" /\ Len(links) = MaxLinks
    /\ requests = MaxLinks /\ delays = MaxLinks - 1

\* the parts of a result that check_link returns
Checked(r) ==
    [url |-> r.url, status_code |-> r.status_code, final_url |-> r.final_url,
     redirect_count |-> r.redirect_count, redirected |-> r.redirected,
     broken |-> r.broken, silent |-> r.silent, error |-> r.error,
     likely_bot_blocked |-> r.likely_bot_blocked]

\* C17: on the response path broken is True exactly when the status code is
\* not in silent_codes, the classifier gives False for the URL and the
\* status code, and the response is not ok; a likely bot-blocked response
\* is silent and not broken, and a 2xx or 3xx response is never broken.
C17_BrokenResponse ==
    result # None /\ FromResponse(result[1]) =>
        LET r == result[1]
            blocked == is_likely_bot_blocked(r.url, None, Some(r.status_code), None)
        IN  /\ r.broken <=> /\ ~in_list(r.status_code, silent_codes)
                            /\ ~blocked
                            /\ ~response_ok(r.status_code)
            /\ r.likely_bot_blocked = blocked
            /\ blocked => r.silent /\ ~r.broken
            /\ 200 <= r.status_code /\ r.status_code < 400 => ~r.broken

C17_Witness ==
    /\ result # None /\ FromResponse(result[1])
    /\ result[1].status_code = 404 /\ ~in_list(404, silent_codes)
    /\ ~result[1].likely_bot_blocked /\ result[1].broken

\* C18: in every result broken and silent are not both True and a broken
\* result is not likely bot-blocked; a result of an except clause has
\* exactly one of broken and silent True, status code 0, no redirect and the
\* requested URL as final URL.
C18_ResultShape ==
    result # None =>
        LET r == result[1]
        IN  /\ ~(r.broken /\ r.silent)
            /\ r.broken => ~r.likely_bot_blocked
            /\ ~FromResponse(r) =>
                  /\ r.broken # r.silent
                  /\ r.status_code = 0 /\ r.redirect_count = 0
                  /\ r.redirected = FALSE /\ r.final_url = r.url

C18_Witness ==
    /\ result # None /\ ~FromResponse(result[1])
    /\ result[1].broken /\ ~result[1].silent

C20_EncodingResult ==
    result # None /\ result[1].error # None =>
        LET r == result[1]
            text == r.error[1]
        IN  /\ startswith(text, <<"E","n","c","o","d","i","n","g"," ","i","s","s","u","e",":"," ">>) =>
                  Checked(r) =
                      failed_result(r.url,
                          is_likely_bot_blocked(r.url, None, None, r.error), text)
            /\ In(<<"e","n","c","o","d","i","n","g">>, lower(text)) => r.silent /\ ~r.broken

C20_Witness ==
    /\ result # None /\ result[1].error # None
    /\ startswith(result[1].error[1], <<"E","n","c","o","d","i","n","g"," ","i","s","s","u","e",":"," ">>)
    /\ ~UrlHasBotProne(result[1].url) /\ ~UrlHasLegitimate(result[1].url)
    /\ result[1].silent

---------------------------------------------------------------------------
(* style_checker.py: should_exclude_code, check_code_style and main, run   *)
(* twice on one HTML file as test_exclude_patterns runs them               *)

\* the items of the list are kept as written, not stripped
exclude_list_unstripped(patterns_arg) ==
    SelectSeq(split(patterns_arg), LAMBDA p : strip(p) # <<>>)

\* patterns = [p.strip() for p in exclude_patterns.split(',') if p.strip()]
exclude_list(patterns_arg) ==
    LET parts == split(patterns_arg)
    IN  SelectSeq([k \in DOMAIN parts |-> strip(parts[k])], LAMBDA p : p # <<>>)

should_exclude_code(code_content, patterns_arg) ==
    IF patterns_arg = <<>> THEN FALSE
    ELSE LET patterns == exclude_list(patterns_arg)
         IN  \E k \in DOMAIN patterns : In(patterns[k], code_content)

\* checkers = [c.strip().lower() for c in args.checkers.split(',') if c.strip()]
parse_checkers(checkers_arg) ==
    LET parts == split(checkers_arg)
    IN  SelectSeq([k \in DOMAIN parts |-> lower(strip(parts[k]))],
                  LAMBDA c : c # <<>>)

\* the checkers of check_code_style, in the order it runs them
checker_names == << <<"f","l","a","k","e","8">>, <<"b","l","a","c","k">>, <<"p","e","p","8">> >>

PreviewLimit == 100

\* code_content[:100] + ('...' if len(code_content) > 100 else '')
code_preview(code_content) ==
    IF Len(code_content) > PreviewLimit
    THEN Take(code_content, PreviewLimit) \o <<".",".",".">>
    ELSE code_content

\* run_flake8, run_black_check, run_pep8_check: the issues the tool reports
\* for the code, here one issue for the code the tool objects to
run_checker(name, code_content, found) ==
    IF code_content \in found THEN << [line |-> 1, checker |-> name] >> ELSE <<>>

RECURSIVE Concat(_)
Concat(seqs) == IF seqs = <<>> THEN <<>> ELSE Head(seqs) \o Concat(Tail(seqs))

\* not in(x, s) of a list
in_seq(x, s) == \E k \in DOMAIN s : s[k] = x

\* check_code_style after the file is read: the result it returns, and the
\* calls of the checkers it makes
check_code_style(blocks, selected, patterns_arg, found) ==
    LET filtered ==
            SelectSeq(blocks, LAMBDA b : ~should_exclude_code(b.content, patterns_arg))
        issues(name) ==
            IF in_seq(name, selected)
            THEN Concat([i \in DOMAIN filtered |->
                    LET reported == run_checker(name, filtered[i].content, found)
                    IN  [j \in DOMAIN reported |->
                            reported[j] @@
                            [code_block |-> i,
                             html_line |-> filtered[i].line_start,
                             code_preview |-> code_preview(filtered[i].content)]]])
            ELSE <<>>
        ran(i) ==
            SelectSeq([j \in DOMAIN checker_names |->
                          [checker |-> checker_names[j],
                           content |-> filtered[i].content]],
                      LAMBDA c : in_seq(c.checker, selected))
    IN  [result |-> [total_code_blocks |-> Len(filtered),
                     flake8_issues |-> issues(checker_names[1]),
                     black_issues |-> issues(checker_names[2]),
                     pep8_issues |-> issues(checker_names[3])],
         calls |-> Concat([i \in DOMAIN filtered |-> ran(i)])]

\* the result when the HTML file cannot be read
unreadable_result ==
    [result |-> [error |-> <<"F","a","i","l","e","d"," ","t","o"," ","r","e","a","d"," ","H","T","M","L"," ","f","i","l","e">>,
                 total_code_blocks |-> 0,
                 flake8_issues |-> <<>>,
                 black_issues |-> <<>>,
                 pep8_issues |-> <<>>],
     calls |-> <<>>]

\* main(): the result printed for the arguments
style_main(file, checkers_arg, patterns_arg, found) ==
    IF file = None THEN unreadable_result
    ELSE check_code_style(file[1], parse_checkers(checkers_arg), patterns_arg, found)

MaxBlocks == 2

BlockContents ==
    { <<"!","p","i","p"," ","i","n","s","t","a","l","l"," ","n","u","m","p","y">>, <<"i","m","p","o","r","t"," ","n","u","m","p","y"," ","a","s"," ","n","p">>, <<"x","=","1","+","2">>, <<"p","l","t",".","s","h","o","w","(",")">> }

\* extract_code_blocks(html_content): Python blocks in document order, no
\* two with the same content
ExtractedBlocks ==
    { [k \in DOMAIN q |-> [content |-> q[k], line_start |-> 2 * k]] :
        q \in { t \in SeqsUpTo(BlockContents, MaxBlocks) :
                  \A i, j \in DOMAIN t : i # j => t[i] # t[j] } }

PatternArgs ==
    { <<>>, <<"!","p","i","p"," ","i","n","s","t","a","l","l">>, <<"!","p","i","p"," ","i","n","s","t","a","l","l",",","!","c","o","n","d","a"," ","i","n","s","t","a","l","l",",","p","l","t",".","s","h","o","w","(",")">>,
      <<" ","p","l","t",".","s","h","o","w","(",")"," ",","," ","n","u","m","p","y">>, <<"n","u","m","p","y",",">>, <<" ",","," ">> }

CheckerArgs == { <<"f","l","a","k","e","8">>, <<"f","l","a","k","e","8",",","b","l","a","c","k",",","p","e","p","8">>, <<" ","B","l","a","c","k"," ",",","P","E","P","8",",">> }

InitStyle ==
    /\ StyleAlone
    /\ code_blocks \in {None} \cup {Some(b) : b \in ExtractedBlocks}
    /\ exclude_patterns \in PatternArgs
    /\ checkers \in CheckerArgs
    /\ flagged \in SUBSET BlockContents
    /\ run1 = None /\ run2 = None /\ spc = "first"

\* style_checker.py FILE --checkers CHECKERS
RunWithout ==
    /\ spc = "first"
    /\ run1' = Some(style_main(code_blocks, checkers, <<>>, flagged))
    /\ spc' = "second"
    /\ UNCHANGED <<code_blocks, exclude_patterns, checkers, flagged, run2>>
    /\ UNCHANGED but_style

\* style_checker.py FILE --checkers CHECKERS --exclude-patterns PATTERNS
RunWith ==
    /\ spc = "second"
    /\ run2' = Some(style_main(code_blocks, checkers, exclude_patterns, flagged))
    /\ spc' = "done"
    /\ UNCHANGED <<code_blocks, exclude_patterns, checkers, flagged, run1>>
    /\ UNCHANGED but_style

NextStyle == RunWithout \/ RunWith

SpecStyle == InitStyle /\ [][NextStyle]_vars

---------------------------------------------------------------------------
(* C12: exclusion of code blocks *)

\* the items of --exclude-patterns between the commas, as written
WrittenPatterns == {split(exclude_patterns)[k] : k \in DOMAIN split(exclude_patterns)}

\* the items with the blanks around them removed, the blank items left out
TrimmedPatterns == {strip(p) : p \in WrittenPatterns} \ {<<>>}

ContainsOneOf(code_content, patterns) == \E p \in patterns : In(p, code_content)

\* the blocks of the file that contain none of the patterns
BlocksWithout(patterns) ==
    SelectSeq(code_blocks[1], LAMBDA b : ~ContainsOneOf(b.content, patterns))

\* the contents handed to some checker in a run
PassedTo(run) == {run[1].calls[k].content : k \in DOMAIN run[1].calls}

BothRunsDone == spc = "done" /\ code_blocks # None

---------------------------------------------------------------------------
(* check_translation_status.py *)

\* s.endswith(suffix)
endswith(s, suffix) ==
    Len(suffix) <= Len(s)
        /\ SubSeq(s, Len(s) - Len(suffix) + 1, Len(s)) = suffix

\* the last position of character c in s, 0 when there is none
rfind(s, c) ==
    IF \E p \in 1..Len(s) : s[p] = c
    THEN CHOOSE p \in 1..Len(s) :
            s[p] = c /\ \A q \in (p + 1)..Len(s) : s[q] # c
    ELSE 0

\* Path(filename).stem: the last component without its last suffix
path_stem(filename) ==
    LET name == SubSeq(filename, rfind(filename, "/") + 1, Len(filename))
        dot == rfind(name, ".")
    IN  IF 1 < dot /\ dot < Len(name) THEN SubSeq(name, 1, dot - 1) ELSE name

\* only the introduction is left out
skipped_names_intro_only == << <<"i","n","t","r","o">> >>

skipped_names ==
    << <<"i","n","t","r","o">>, <<"s","t","a","t","u","s">>, <<"t","r","o","u","b","l","e","s","h","o","o","t","i","n","g">>, <<"z","r","e","f","e","r","e","n","c","e","s">> >>

\* the lecture files among the files of the response, as get_pr_files
\* records them
lecture_files(files) ==
    LET kept == SelectSeq(files, LAMBDA file :
                    /\ startswith(file.filename, <<"l","e","c","t","u","r","e","s","/">>)
                    /\ endswith(file.filename, <<".","m","d">>)
                    /\ ~in_seq(path_stem(file.filename), skipped_names))
    IN  [k \in DOMAIN kept |->
            [filename |-> kept[k].filename,
             lecture_name |-> path_stem(kept[k].filename),
             status |-> kept[k].status,
             patch |-> IF "patch" \in DOMAIN kept[k] THEN kept[k].patch ELSE <<>>]]

\* extract_files_from_chapters, as the set of the names it lists
RECURSIVE extract_files_from_chapters(_)
extract_files_from_chapters(chapters) ==
    UNION { (IF "file" \in DOMAIN chapters[k] THEN {chapters[k].file} ELSE {})
            \cup (IF "sections" \in DOMAIN chapters[k]
                  THEN extract_files_from_chapters(chapters[k].sections)
                  ELSE {}) : k \in DOMAIN chapters }

\* the set get_translated_lectures builds from the parsed _toc.yml
translated_lectures(toc) ==
    (IF "parts" \in DOMAIN toc
     THEN UNION { IF "chapters" \in DOMAIN toc.parts[k]
                  THEN extract_files_from_chapters(toc.parts[k].chapters)
                  ELSE {} : k \in DOMAIN toc.parts }
     ELSE {})
    \cup (IF "chapters" \in DOMAIN toc
          THEN extract_files_from_chapters(toc.chapters)
          ELSE {})

\* the modified files that are translated, in the order of modified_files
translated_files(modified, lectures) ==
    SelectSeq(modified, LAMBDA file_info : file_info.lecture_name \in lectures)

\* the two lines one run appends to the file named by GITHUB_OUTPUT; the
\* list stands for its JSON text
output_lines(proceed, files) ==
    << <<"should-proceed", IF proceed THEN "true" ELSE "false">>,
       <<"translated-files", files>> >>

MaxFiles == 2

\* the files a pull request can list: GitHub's records, `patch` being absent
\* for some
PrFileChoices ==
    { [filename |-> <<"l","e","c","t","u","r","e","s","/","a","i","y","a","g","a","r","i",".","m","d">>, status |-> "modified",
       patch |-> <<"@","@"," ","-","1"," ","+","1"," ","@","@">>],
      [filename |-> <<"l","e","c","t","u","r","e","s","/","m","c","c","a","l","l",".","m","d">>, status |-> "added"],
      [filename |-> <<"l","e","c","t","u","r","e","s","/","i","n","t","r","o",".","m","d">>, status |-> "modified"],
      [filename |-> <<"l","e","c","t","u","r","e","s","/","z","r","e","f","e","r","e","n","c","e","s",".","m","d">>, status |-> "removed"],
      [filename |-> <<"l","e","c","t","u","r","e","s","/","_","t","o","c",".","y","m","l">>, status |-> "modified"],
      [filename |-> <<"d","o","c","/","l","e","c","t","u","r","e","s","/","k","a","l","m","a","n",".","m","d">>, status |-> "modified"],
      [filename |-> <<"R","E","A","D","M","E",".","m","d">>, status |-> "modified"] }

PrFileLists ==
    { q \in SeqsUpTo(PrFileChoices, MaxFiles) :
        \A i, j \in DOMAIN q : i # j => q[i].filename # q[j].filename }

\* parsed _toc.yml files: parts with chapters and sections, chapters at the
\* root, entries without `file`, and a file with neither key
TocChoices ==
    { [format |-> "jb-book", root |-> <<"i","n","t","r","o">>,
       parts |-> << [caption |-> "Tools",
                     chapters |-> << [file |-> <<"i","n","t","r","o">>],
                                     [file |-> <<"m","c","c","a","l","l">>],
                                     [file |-> <<"k","a","l","m","a","n">>,
                                      sections |-> << [file |-> <<"a","i","y","a","g","a","r","i">>] >>] >>],
                    [caption |-> "Empty"] >>],
      [format |-> "jb-book", root |-> <<"i","n","t","r","o">>,
       chapters |-> << [url |-> "https://quantecon.org"],
                       [file |-> <<"m","c","c","a","l","l">>],
                       [file |-> <<"z","r","e","f","e","r","e","n","c","e","s">>] >>],
      [format |-> "jb-book", root |-> <<"a","i","y","a","g","a","r","i">>] }

InitStatus ==
    /\ StatusAlone
    /\ github_token \in BOOLEAN
    /\ pr_files \in PrFileLists
    /\ pr_ok \in BOOLEAN
    /\ toc_data \in {Some(t) : t \in TocChoices}
    /\ toc_ok \in BOOLEAN
    /\ github_output \in {None, Some(<<>>)}
    /\ modified_files = <<>> /\ fetched = <<>> /\ exit_code = None
    /\ tpc = "start"

\* main() up to `if not modified_files`: the files of the pull request are
\* requested and filtered; with none, the outputs are written at once; an
\* exception ends the run with status 1
GetPrFiles ==
    /\ tpc = "start"
    /\ IF ~github_token
       THEN /\ exit_code' = Some(1) /\ tpc' = "done"
            /\ UNCHANGED <<fetched, modified_files, github_output>>
       ELSE /\ fetched' = Append(fetched, "pulls/files")
            /\ IF ~pr_ok
               THEN /\ exit_code' = Some(1) /\ tpc' = "done"
                    /\ UNCHANGED <<modified_files, github_output>>
               ELSE /\ modified_files' = lecture_files(pr_files)
                    /\ IF modified_files' # <<>>
                       THEN /\ tpc' = "translated"
                            /\ UNCHANGED <<exit_code, github_output>>
                       ELSE IF github_output = None
                       THEN /\ exit_code' = Some(1) /\ tpc' = "done"
                            /\ UNCHANGED github_output
                       ELSE /\ github_output' =
                                Some(github_output[1] \o output_lines(FALSE, <<>>))
                            /\ exit_code' = Some(0) /\ tpc' = "done"
    /\ UNCHANGED <<github_token, pr_files, pr_ok, toc_data, toc_ok>>
    /\ UNCHANGED but_status

\* the rest of main(): the table of contents is requested, the translated
\* files are selected and the outputs written
CheckTranslated ==
    /\ tpc = "translated"
    /\ fetched' = Append(fetched, "contents/lectures/_toc.yml")
    /\ IF ~toc_ok \/ github_output = None
       THEN /\ exit_code' = Some(1)
            /\ UNCHANGED github_output
       ELSE LET found == translated_files(modified_files,
                                          translated_lectures(toc_data[1]))
            IN  /\ github_output' =
                        Some(github_output[1] \o output_lines(found # <<>>, found))
                /\ exit_code' = Some(0)
    /\ tpc' = "done"
    /\ UNCHANGED <<github_token, pr_files, pr_ok, toc_data, toc_ok, modified_files>>
    /\ UNCHANGED but_status

NextStatus == GetPrFiles \/ CheckTranslated

SpecStatus == InitStatus /\ [][NextStatus]_vars

---------------------------------------------------------------------------
(* C13: the outputs of check_translation_status *)

\* a .md file under lectures/ whose name is none of the four left out
IsLectureFile(file) ==
    /\ startswith(file.filename, <<"l","e","c","t","u","r","e","s","/">>)
    /\ endswith(file.filename, <<".","m","d">>)
    /\ path_stem(file.filename) \notin
          { <<"i","n","t","r","o">>, <<"s","t","a","t","u","s">>, <<"t","r","o","u","b","l","e","s","h","o","o","t","i","n","g">>, <<"z","r","e","f","e","r","e","n","c","e","s">> }

\* the lecture files modified in the pull request
ModifiedLectures == SelectSeq(pr_files, IsLectureFile)

\* those whose lecture name is in the target's table of contents, in the
\* order of the pull request
ModifiedAndTranslated ==
    SelectSeq(ModifiedLectures, LAMBDA file :
        path_stem(file.filename) \in translated_lectures(toc_data[1]))

FilenamesOf(files) == [k \in DOMAIN files |-> files[k].filename]

OutputLines == IF github_output = None THEN <<>> ELSE github_output[1]

WroteShouldProceed(value) ==
    \E k \in DOMAIN OutputLines :
        OutputLines[k][1] = "should-proceed" /\ OutputLines[k][2] = value

WroteTranslatedFiles(names) ==
    \E k \in DOMAIN OutputLines :
        /\ OutputLines[k][1] = "translated-files"
        /\ FilenamesOf(OutputLines[k][2]) = names

OutputsAsClaimed ==
    /\ WroteShouldProceed("true") <=> ModifiedAndTranslated # <<>>
    /\ ModifiedAndTranslated # <<>> =>
          WroteTranslatedFiles(FilenamesOf(ModifiedAndTranslated))
    /\ ModifiedAndTranslated = <<>> =>
          WroteShouldProceed("false") /\ WroteTranslatedFiles(<<>>)

RequestsSucceed ==
    /\ github_token /\ github_output # None /\ pr_ok
    /\ ModifiedLectures # <<>> => toc_ok

---------------------------------------------------------------------------
(* apply-unified-labels.py; of a label only the name is kept, its colour   *)
(* and description decide nothing                                          *)

UNIFIED_LABELS ==
    << "bug", "enhancement", "documentation", "question", "maintenance",
       "priority: critical", "priority: high", "priority: medium",
       "priority: low",
       "status: ready", "status: in-progress", "status: blocked",
       "status: needs-review", "status: testing",
       "automated issue", "dependencies", "github_actions", "linkchecker",
       "report",
       "good first issue", "help wanted", "duplicate", "invalid", "wontfix" >>

\* the categories in order, each label with its `repos` list if it has one
REPO_SPECIFIC_LABELS ==
    << << [name |-> "content: intro", repos |-> <<"lecture-python-intro">>],
          [name |-> "content: intermediate",
           repos |-> <<"lecture-python.myst", "continuous_time_mcs">>],
          [name |-> "content: advanced",
           repos |-> <<"lecture-python-advanced.myst">>],
          [name |-> "content: jax", repos |-> <<"lecture-jax">>],
          [name |-> "content: programming",
           repos |-> <<"lecture-python-programming">>] >>,
       << [name |-> "component: build"],
          [name |-> "component: infrastructure"],
          [name |-> "component: content"],
          [name |-> "component: exercises"] >>,
       << [name |-> "format: myst",
           repos |-> <<"lecture-python-intro", "lecture-python.myst",
                       "lecture-python-advanced.myst", "lecture-jax",
                       "continuous_time_mcs">>],
          [name |-> "format: rst", repos |-> <<"lecture-python-programming">>],
          [name |-> "migration"] >> >>

TARGET_REPOS ==
    << "lecture-python-programming", "lecture-python-intro",
       "lecture-python.myst", "lecture-python-advanced.myst", "lecture-jax",
       "continuous_time_mcs" >>

\* a request that raises is given the status 0
Raised == 0

\* update_label: what it returns, whether it raised, the requests it sent
update_label(dry_run, patch_status) ==
    IF dry_run THEN [ret |-> TRUE, raised |-> FALSE, sent |-> {}]
    ELSE IF patch_status = Raised
    THEN [ret |-> FALSE, raised |-> TRUE, sent |-> {"PATCH"}]
    ELSE [ret |-> patch_status = 200, raised |-> FALSE, sent |-> {"PATCH"}]

\* the dry run is ignored and the label is posted
create_label_posting_in_dry_run(dry_run, post_status, patch_status) ==
    [ret |-> post_status = 201, raised |-> FALSE, sent |-> {"POST"}]

\* create_label, with the update it falls back to when the label exists
create_label(dry_run, post_status, patch_status) ==
    IF dry_run THEN [ret |-> TRUE, raised |-> FALSE, sent |-> {}]
    ELSE IF post_status = Raised
    THEN [ret |-> FALSE, raised |-> TRUE, sent |-> {"POST"}]
    ELSE IF post_status = 201
    THEN [ret |-> TRUE, raised |-> FALSE, sent |-> {"POST"}]
    ELSE IF post_status = 422
    THEN LET updated == update_label(dry_run, patch_status)
         IN  [updated EXCEPT !.sent = {"POST"} \cup updated.sent]
    ELSE [ret |-> FALSE, raised |-> FALSE, sent |-> {"POST"}]

\* the labels apply_labels_to_repo creates in a repository, in its order
labels_for(repo) ==
    UNIFIED_LABELS \o
    Concat([c \in DOMAIN REPO_SPECIFIC_LABELS |->
        LET applies ==
                SelectSeq(REPO_SPECIFIC_LABELS[c], LAMBDA label_info :
                    "repos" \in DOMAIN label_info =>
                        in_seq(repo, label_info.repos))
        IN  [k \in DOMAIN applies |-> applies[k].name]])

PostStatuses == {201, 422, 500, Raised}
PatchStatuses == {200, 403, Raised}

all_applied == "All labels applied successfully!"
some_failed == "Some labels failed to apply. Check output above."

RepoArgs == {None, Some("lecture-jax"), Some("lecture-julia.myst")}

\* what is typed at "Proceed? (y/N): "
Answers == { <<"Y">>, <<"y","e","s">>, <<>> }

InitLabels ==
    /\ LabelsAlone
    /\ label_args \in [repo : RepoArgs, dry_run : BOOLEAN, list_current : BOOLEAN]
    /\ confirm \in Answers
    /\ repos_to_process = <<>>
    /\ repo_idx = 0 /\ label_idx = 0 /\ success = TRUE
    /\ overall_success = TRUE /\ sent = {} /\ calls = 0 /\ returned = {}
    /\ message = None /\ label_exit = None /\ lpc = "start"

\* main() up to the loop over the repositories: the list of repositories,
\* the listing mode, and the confirmation of a live run
StartLabels ==
    /\ lpc = "start"
    /\ repos_to_process' =
            IF label_args.repo # None THEN <<label_args.repo[1]>> ELSE TARGET_REPOS
    /\ IF label_args.list_current
       THEN lpc' = "list" /\ UNCHANGED <<message, label_exit>>
       ELSE IF label_args.dry_run \/ lower(confirm) = <<"y">>
       THEN lpc' = "apply" /\ UNCHANGED <<message, label_exit>>
       ELSE /\ message' = Some("Aborted")
            /\ label_exit' = Some(0)
            /\ lpc' = "done"
    /\ UNCHANGED <<label_args, confirm, repo_idx, label_idx, success,
                   overall_success, sent, calls, returned>>
    /\ UNCHANGED but_labels

\* list_current_labels of the next repository: one GET, a failure of which
\* is printed; after the last repository main returns
ListCurrent ==
    /\ lpc = "list"
    /\ repo_idx < Len(repos_to_process)
    /\ sent' = sent \cup {"GET"}
    /\ repo_idx' = repo_idx + 1
    /\ IF repo_idx' = Len(repos_to_process)
       THEN label_exit' = Some(0) /\ lpc' = "done"
       ELSE UNCHANGED <<label_exit, lpc>>
    /\ UNCHANGED <<label_args, confirm, repos_to_process, label_idx, success,
                   overall_success, calls, returned, message>>
    /\ UNCHANGED but_labels

\* one create_label of apply_labels_to_repo; after the last label of the
\* repository, or when a request raises, main goes on to the next one
CreateLabel ==
    /\ lpc = "apply"
    /\ repo_idx < Len(repos_to_process)
    /\ \E post_status \in PostStatuses, patch_status \in PatchStatuses :
         LET labels == labels_for(repos_to_process[repo_idx + 1])
             made == create_label(label_args.dry_run, post_status, patch_status)
             now == success /\ made.ret
         IN  /\ sent' = sent \cup made.sent
             /\ calls' = calls + 1
             /\ IF made.raised
                THEN /\ overall_success' = FALSE
                     /\ success' = TRUE
                     /\ repo_idx' = repo_idx + 1
                     /\ label_idx' = 0
                     /\ UNCHANGED returned
                ELSE /\ returned' = returned \cup {made.ret}
                     /\ IF label_idx + 1 = Len(labels)
                        THEN /\ overall_success' = (overall_success /\ now)
                             /\ success' = TRUE
                             /\ repo_idx' = repo_idx + 1
                             /\ label_idx' = 0
                        ELSE /\ success' = now
                             /\ label_idx' = label_idx + 1
                             /\ UNCHANGED <<overall_success, repo_idx>>
    /\ UNCHANGED <<label_args, confirm, repos_to_process, message, label_exit, lpc>>
    /\ UNCHANGED but_labels

\* the end of main: the message and the exit status
ReportLabels ==
    /\ lpc = "apply"
    /\ repo_idx = Len(repos_to_process)
    /\ IF overall_success
       THEN message' = Some(all_applied) /\ label_exit' = Some(0)
       ELSE message' = Some(some_failed) /\ label_exit' = Some(1)
    /\ lpc' = "done"
    /\ UNCHANGED <<label_args, confirm, repos_to_process, repo_idx, label_idx,
                   success, overall_success, sent, calls, returned>>
    /\ UNCHANGED but_labels

NextLabels == StartLabels \/ ListCurrent \/ CreateLabel \/ ReportLabels

SpecLabels == InitLabels /\ [][NextLabels]_vars

---------------------------------------------------------------------------
(* C14: a dry run *)

DryRun == lpc # "off" /\ label_args.dry_run

\* the create_label calls of a whole run over the repositories
AllCalls ==
    LET counts == [k \in DOMAIN repos_to_process |->
                      Len(labels_for(repos_to_process[k]))]
        sum[k \in 0..Len(counts)] == IF k = 0 THEN 0 ELSE sum[k - 1] + counts[k]
    IN  sum[Len(counts)]

\* C14: in a dry run no POST and no PATCH is ever sent, create_label and
\* update_label return True whatever the server would answer, and the run
\* ends with status 0, after a create_label for every label of every
\* repository and the message that all labels were applied unless it only
\* listed the current labels.
C14_DryRunNoChanges ==
    DryRun =>
        /\ "POST" \notin sent /\ "PATCH" \notin sent
        /\ returned \subseteq {TRUE}
        /\ \A post_status \in PostStatuses, patch_status \in PatchStatuses :
              /\ create_label(TRUE, post_status, patch_status) =
                    [ret |-> TRUE, raised |-> FALSE, sent |-> {}]
              /\ update_label(TRUE, patch_status) =
                    [ret |-> TRUE, raised |-> FALSE, sent |-> {}]
        /\ overall_success /\ success
        /\ lpc = "done" =>
              /\ label_exit = Some(0)
              /\ ~label_args.list_current =>
                    message = Some(all_applied) /\ calls = AllCalls

\* a dry run over all the target repositories has ended
C14_Witness ==
    /\ DryRun /\ lpc = "done" /\ label_args.repo = None
    /\ ~label_args.list_current
    /\ calls = 186 /\ returned = {TRUE} /\ sent = {}
    /\ message = Some(all_applied)

---------------------------------------------------------------------------
(* create_translation_pr.py *)

\* branch_name = f"translation-update-pr-{args.pr_number}"
branch_name_of(number) == <<"t","r","a","n","s","l","a","t","i","o","n","-","u","p","d","a","t","e","-","p","r","-">> \o format_int(number)

\* the default branch, which create_branch starts from and the pull request
\* is made against
base_branch == <<"m","a","i","n">>

\* the update is sent to the default branch
update_target_default(branch_name) == base_branch

\* the `branch` of the PUT that update_file_content sends from main()
update_target(branch_name) == branch_name

\* target_file = f"lectures/{file_info['lecture_name']}.md"
target_file(file_info) == <<"l","e","c","t","u","r","e","s","/">> \o file_info.lecture_name \o <<".","m","d">>

PrNumbers == {7, 128}

TranslatedFileChoices ==
    { [filename |-> <<"l","e","c","t","u","r","e","s","/","a","i","y","a","g","a","r","i",".","m","d">>, lecture_name |-> <<"a","i","y","a","g","a","r","i">>],
      [filename |-> <<"l","e","c","t","u","r","e","s","/","m","c","c","a","l","l",".","m","d">>, lecture_name |-> <<"m","c","c","a","l","l">>],
      [filename |-> <<"l","e","c","t","u","r","e","s","/","m","o","r","e","/","m","a","i","n",".","m","d">>, lecture_name |-> <<"m","a","i","n">>] }

\* --translated-files: not JSON (None), or the list it encodes
TranslatedFileArgs ==
    {None} \cup
    { Some(q) : q \in { t \in SeqsUpTo(TranslatedFileChoices, MaxFiles) :
                          \A i, j \in DOMAIN t : i # j => t[i] # t[j] } }

\* how one iteration of the loop over the files can end: an exception of
\* one of its four calls, or the update made
FileOutcomes == {"source", "target", "translate", "put", "updated"}

\* the requests of one iteration that ends so, in order
file_requests(file_info, outcome, branch_name) ==
    LET source == [op |-> "get_file_content", repo |-> "source",
                   path |-> file_info.filename, ref |-> base_branch,
                   ok |-> outcome # "source"]
        target == [op |-> "get_file_content", repo |-> "target",
                   path |-> target_file(file_info), ref |-> base_branch,
                   ok |-> outcome # "target"]
        translate == [op |-> "translate_content", repo |-> "openai",
                      path |-> file_info.filename, ref |-> <<>>,
                      ok |-> outcome # "translate"]
        put == [op |-> "update_file_content", repo |-> "target",
                path |-> target_file(file_info),
                ref |-> update_target(branch_name),
                ok |-> outcome # "put"]
    IN  IF outcome = "source" THEN <<source>>
        ELSE IF outcome = "target" THEN <<source, target>>
        ELSE IF outcome = "translate" THEN <<source, target, translate>>
        ELSE <<source, target, translate, put>>

\* a request that names no file
request(op, repo, ref, ok) ==
    [op |-> op, repo |-> repo, path |-> <<>>, ref |-> ref, ok |-> ok]

InitPr ==
    /\ PrAlone
    /\ openai_api_key \in BOOLEAN
    /\ pr_token \in BOOLEAN
    /\ files_arg \in TranslatedFileArgs
    /\ pr_number \in PrNumbers
    /\ branches \in {{base_branch}, {base_branch, branch_name_of(pr_number)}}
    /\ file_idx = 0 /\ updated_files = <<>> /\ log = <<>> /\ pulls = <<>>
    /\ pr_exit = None /\ ppc = "start"

\* main() up to create_branch: setup_openai, the list of files, which when
\* empty ends the run, and get_pr_details
StartPr ==
    /\ ppc = "start"
    /\ IF ~openai_api_key \/ files_arg = None
       THEN pr_exit' = Some(1) /\ ppc' = "done" /\ UNCHANGED log
       ELSE IF files_arg[1] = <<>>
       THEN pr_exit' = Some(0) /\ ppc' = "done" /\ UNCHANGED log
       ELSE IF ~pr_token
       THEN pr_exit' = Some(1) /\ ppc' = "done" /\ UNCHANGED log
       ELSE \E ok \in BOOLEAN :
               /\ log' = Append(log, request("get_pr_details", "source", <<>>, ok))
               /\ IF ok THEN ppc' = "branch" /\ UNCHANGED pr_exit
                  ELSE pr_exit' = Some(1) /\ ppc' = "done"
    /\ UNCHANGED <<openai_api_key, pr_token, files_arg, pr_number, branches,
                   file_idx, updated_files, pulls>>
    /\ UNCHANGED but_pr

\* create_branch: the default branch is read and the new reference posted;
\* status 422 is taken to say that the branch exists
CreateBranch ==
    /\ ppc = "branch"
    /\ LET branch_name == branch_name_of(pr_number)
           read(ok) == request("get_ref", "target", base_branch, ok)
           post(ok) == request("create_ref", "target", branch_name, ok)
       IN  \/ /\ log' = Append(log, read(FALSE))
              /\ pr_exit' = Some(1) /\ ppc' = "done"
              /\ UNCHANGED branches
           \/ /\ log' = log \o <<read(TRUE), post(FALSE)>>
              /\ pr_exit' = Some(1) /\ ppc' = "done"
              /\ UNCHANGED branches
           \/ /\ log' = log \o <<read(TRUE), post(TRUE)>>
              /\ branches' = branches \cup {branch_name}
              /\ ppc' = "files"
              /\ UNCHANGED pr_exit
    /\ UNCHANGED <<openai_api_key, pr_token, files_arg, pr_number, file_idx,
                   updated_files, pulls>>
    /\ UNCHANGED but_pr

\* one iteration of `for file_info in translated_files`
ProcessFile ==
    /\ ppc = "files"
    /\ file_idx < Len(files_arg[1])
    /\ \E outcome \in FileOutcomes :
         LET file_info == files_arg[1][file_idx + 1]
         IN  /\ log' = log \o file_requests(file_info, outcome,
                                            branch_name_of(pr_number))
             /\ updated_files' =
                    IF outcome = "updated"
                    THEN Append(updated_files, file_info.lecture_name)
                    ELSE updated_files
    /\ file_idx' = file_idx + 1
    /\ UNCHANGED <<openai_api_key, pr_token, files_arg, pr_number, branches,
                   pulls, pr_exit, ppc>>
    /\ UNCHANGED but_pr

\* after the loop: the pull request, if a file was updated
FinishPr ==
    /\ ppc = "files"
    /\ file_idx = Len(files_arg[1])
    /\ IF updated_files = <<>>
       THEN pr_exit' = Some(0) /\ UNCHANGED <<log, pulls>>
       ELSE \E ok \in BOOLEAN :
               /\ log' = Append(log, request("create_pull_request", "target",
                                             branch_name_of(pr_number), ok))
               /\ IF ok
                  THEN /\ pulls' = Append(pulls,
                              [head |-> branch_name_of(pr_number),
                               base |-> base_branch,
                               lectures |-> updated_files])
                       /\ pr_exit' = Some(0)
                  ELSE pr_exit' = Some(1) /\ UNCHANGED pulls
    /\ ppc' = "done"
    /\ UNCHANGED <<openai_api_key, pr_token, files_arg, pr_number, branches,
                   file_idx, updated_files>>
    /\ UNCHANGED but_pr

NextPr == StartPr \/ CreateBranch \/ ProcessFile \/ FinishPr

SpecPr == InitPr /\ [][NextPr]_vars

---------------------------------------------------------------------------
(* C16: the order of the steps of create_translation_pr *)

\* the positions in the log of the requests of one kind
Positions(op) == {k \in DOMAIN log : log[k].op = op}

\* the source paths read so far, in order
SourcesRead ==
    LET reads == SelectSeq(log, LAMBDA r :
                    r.op = "get_file_content" /\ r.repo = "source")
    IN  [k \in DOMAIN reads |-> reads[k].path]

\* C16: every update is sent after the branch was created or found, names
\* that branch and not main; the pull request is the last request, made
\* when every file has been processed and some update succeeded, from that
\* branch to main; the files are processed once each in the order given;
\* with an empty list no request is made at all.
C16_FixedOrder ==
    ppc \notin {"off", "start"} /\ files_arg # None =>
        LET branch == branch_name_of(pr_number)
            files == files_arg[1]
        IN  /\ Cardinality(Positions("create_ref")) <= 1
            /\ \A k \in Positions("update_file_content") :
                  /\ log[k].ref = branch /\ log[k].ref # base_branch
                  /\ branch \in branches
                  /\ \E j \in Positions("create_ref") : j < k /\ log[j].ok
            /\ SourcesRead = [k \in 1..file_idx |-> files[k].filename]
            /\ \A k \in Positions("create_pull_request") :
                  /\ k = Len(log) /\ ppc = "done"
                  /\ file_idx = Len(files)
                  /\ log[k].ref = branch
                  /\ \E j \in Positions("update_file_content") : log[j].ok
            /\ pulls # <<>> =>
                  /\ Positions("create_pull_request") # {}
                  /\ pulls = << [head |-> branch, base |-> base_branch,
                                 lectures |-> updated_files] >>
                  /\ updated_files # <<>>
            /\ Len(updated_files) =
                  Cardinality({k \in Positions("update_file_content") : log[k].ok})
            /\ files = <<>> =>
                  /\ log = <<>> /\ pulls = <<>> /\ updated_files = <<>>
                  /\ pr_exit = Some(IF openai_api_key THEN 0 ELSE 1)

\* of two files the second, the lecture named main, is updated on the
\* branch and the pull request is opened
C16_Witness ==
    /\ ppc = "done" /\ files_arg # None /\ Len(files_arg[1]) = 2
    /\ updated_files = << <<"m","a","i","n">> >>
    /\ Len(pulls) = 1
    /\ pr_number = 128

---------------------------------------------------------------------------
(* check_style.py: StyleGuideChecker.run *)

\* every suggestion is applied, whatever its confidence
high_confidence_any(suggestions) == suggestions

\* the suggestions with confidence HIGH, which alone are grouped by file
high_confidence(suggestions) ==
    SelectSeq(suggestions, LAMBDA s : s.confidence = "high")

\* the keys of file_suggestions, in the order of their first suggestion
RECURSIVE files_in_order(_)
files_in_order(suggestions) ==
    IF suggestions = <<>> THEN <<>>
    ELSE LET before == files_in_order(SubSeq(suggestions, 1, Len(suggestions) - 1))
             last == suggestions[Len(suggestions)].file_path
         IN  IF in_seq(last, before) THEN before ELSE Append(before, last)

\* suggestions_list.sort(key=lambda x: x.line_number, reverse=True): stable,
\* the larger line numbers first
RECURSIVE sort_reverse(_)
sort_reverse(suggestions) ==
    IF suggestions = <<>> THEN <<>>
    ELSE LET top == CHOOSE k \in DOMAIN suggestions :
                      /\ \A j \in DOMAIN suggestions :
                            suggestions[j].line_number <= suggestions[k].line_number
                      /\ \A j \in 1..(k - 1) :
                            suggestions[j].line_number < suggestions[k].line_number
         IN  <<suggestions[top]>> \o
             sort_reverse(SubSeq(suggestions, 1, top - 1) \o
                          SubSeq(suggestions, top + 1, Len(suggestions)))

\* the loop over the sorted suggestions of one file: the lines after it and
\* the changes counted
RECURSIVE apply_to_lines(_, _)
apply_to_lines(lines, suggestions) ==
    IF suggestions = <<>> THEN [lines |-> lines, changes_made |-> 0]
    ELSE LET suggestion == Head(suggestions)
             fits == suggestion.line_number <= Len(lines)
             current_line == lines[suggestion.line_number]
             matches == \/ strip(current_line) = suggestion.original_text
                        \/ In(suggestion.original_text, current_line)
         IN  IF fits /\ matches
             THEN LET rest == apply_to_lines(
                                [lines EXCEPT ![suggestion.line_number] =
                                    suggestion.suggested_text],
                                Tail(suggestions))
                  IN  [rest EXCEPT !.changes_made = @ + 1]
             ELSE apply_to_lines(lines, Tail(suggestions))

\* apply_high_confidence_changes on the files as they are, some of which
\* cannot be read or cannot be written: the files after it, those written,
\* and the changes it returns
apply_high_confidence_changes(suggestions, files, unreadable, unwritable) ==
    LET high == high_confidence(suggestions)
        order == files_in_order(high)
        of_file(f) == sort_reverse(SelectSeq(high, LAMBDA s : s.file_path = f))
        step[k \in 0..Len(order)] ==
            IF k = 0
            THEN [files |-> files, written |-> {}, changes_made |-> 0]
            ELSE LET f == order[k]
                     done == apply_to_lines(step[k - 1].files[f], of_file(f))
                 IN  IF f \in unreadable THEN step[k - 1]
                     ELSE IF f \in unwritable
                     THEN [step[k - 1] EXCEPT
                             !.changes_made = @ + done.changes_made]
                     ELSE [files |-> [step[k - 1].files EXCEPT ![f] = done.lines],
                           written |-> step[k - 1].written \cup {f},
                           changes_made |->
                               step[k - 1].changes_made + done.changes_made]
    IN  step[Len(order)]

\* the comments of the review of create_pr_review_suggestions
review_comments_of(suggestions) ==
    [k \in DOMAIN suggestions |->
        [path |-> suggestions[k].file_path,
         line |-> suggestions[k].line_number,
         suggestion_block |-> suggestions[k].confidence = "high",
         body |-> suggestions[k].suggested_text]]

\* the lines set_outputs writes
style_outputs(files_reviewed, suggestions_made, changes) ==
    [files_reviewed |-> files_reviewed,
     suggestions_made |-> suggestions_made,
     high_confidence_changes |-> changes]

MaxSuggestions == 2

MarkdownFiles == <<"lectures/a.md", "lectures/b.md">>

\* the lines of the files before the run
InitialDisk ==
    [f \in {"lectures/a.md", "lectures/b.md"} |->
        IF f = "lectures/a.md"
        THEN << <<"d","e","f"," ","f","(","a","l","p","h","a",")",":">>, <<" "," ","x"," ","="," ","1"," "," ">> >>
        ELSE << <<"#"," ","i","n","t","r","o">> >>]

\* suggestions the analysis can return: matching a part of the line or the
\* stripped line, not matching, past the end of the file, of each confidence
SuggestionChoices ==
    { [file_path |-> "lectures/a.md", line_number |-> 1,
       original_text |-> <<"a","l","p","h","a">>, suggested_text |-> <<"d","e","f"," ","f","(","a",")",":">>,
       confidence |-> "high"],
      [file_path |-> "lectures/a.md", line_number |-> 2,
       original_text |-> <<"x"," ","="," ","1">>, suggested_text |-> <<"x"," ","="," ","2">>,
       confidence |-> "high"],
      [file_path |-> "lectures/a.md", line_number |-> 1,
       original_text |-> <<"d","e","f"," ","f","(","a","l","p","h","a",")",":">>, suggested_text |-> <<"d","e","f"," ","g","(",")",":">>,
       confidence |-> "medium"],
      [file_path |-> "lectures/b.md", line_number |-> 1,
       original_text |-> <<"#"," ","I","n","t","r","o">>, suggested_text |-> <<"#"," ","I","n","t","r","o","d","u","c","t","i","o","n">>,
       confidence |-> "high"],
      [file_path |-> "lectures/b.md", line_number |-> 3,
       original_text |-> <<"#"," ","i","n","t","r","o">>, suggested_text |-> <<"#","#"," ","i","n","t","r","o">>,
       confidence |-> "high"],
      [file_path |-> "lectures/b.md", line_number |-> 1,
       original_text |-> <<"#"," ","i","n","t","r","o">>, suggested_text |-> <<"#"," ","I","n","t","r","o">>,
       confidence |-> "low"] }

SuggestionLists ==
    { q \in SeqsUpTo(SuggestionChoices, MaxSuggestions) :
        \A i, j \in DOMAIN q : i # j => q[i] # q[j] }

InitGuide ==
    /\ GuideAlone
    /\ style_mode \in {"pr", "full"}
    /\ confidence_threshold \in {"high", "medium", "low"}
    /\ github_output_set \in BOOLEAN
    /\ in_pr \in BOOLEAN
    /\ docs \in {<<>>, MarkdownFiles}
    /\ disk = InitialDisk
    /\ all_suggestions = <<>> /\ changes_made = 0 /\ written = {}
    /\ commit_attempts = 0 /\ commits = 0 /\ review = None
    /\ outputs = None /\ logged_changes = None /\ guide_exit = None
    /\ gpc = "start"

\* run() up to the choice of the mode: the files to review, which when
\* there are none ends the run, and their analysis
Analyze ==
    /\ gpc = "start"
    /\ IF docs = <<>>
       THEN /\ outputs' = IF github_output_set
                          THEN Some(style_outputs(0, 0, 0)) ELSE None
            /\ guide_exit' = Some(0)
            /\ gpc' = "done"
            /\ UNCHANGED all_suggestions
       ELSE /\ \E found \in SuggestionLists : all_suggestions' = found
            /\ gpc' = IF style_mode = "pr" THEN "review" ELSE "apply"
            /\ UNCHANGED <<outputs, guide_exit>>
    /\ UNCHANGED <<style_mode, confidence_threshold, github_output_set, in_pr,
                   docs, disk, changes_made, written, commit_attempts, commits,
                   review, logged_changes>>
    /\ UNCHANGED but_guide

\* PR mode: create_pr_review_suggestions, whose failure is logged, and the
\* summary comment
ReviewPr ==
    /\ gpc = "review"
    /\ \E posted \in BOOLEAN :
         review' = IF in_pr /\ posted /\ all_suggestions # <<>>
                   THEN Some(review_comments_of(all_suggestions))
                   ELSE None
    /\ gpc' = "outputs"
    /\ UNCHANGED <<style_mode, confidence_threshold, github_output_set, in_pr,
                   docs, disk, all_suggestions, changes_made, written,
                   commit_attempts, commits, outputs, logged_changes, guide_exit>>
    /\ UNCHANGED but_guide

\* full mode: apply_high_confidence_changes when the threshold is HIGH
ApplyChanges ==
    /\ gpc = "apply"
    /\ IF confidence_threshold = "high"
       THEN \E unreadable, unwritable \in SUBSET DOMAIN disk :
               LET applied == apply_high_confidence_changes(
                                 all_suggestions, disk, unreadable, unwritable)
               IN  /\ disk' = applied.files
                   /\ written' = applied.written
                   /\ changes_made' = applied.changes_made
                   /\ gpc' = IF applied.changes_made > 0 THEN "commit" ELSE "outputs"
       ELSE gpc' = "outputs" /\ UNCHANGED <<disk, written, changes_made>>
    /\ UNCHANGED <<style_mode, confidence_threshold, github_output_set, in_pr,
                   docs, all_suggestions, commit_attempts, commits, review,
                   outputs, logged_changes, guide_exit>>
    /\ UNCHANGED but_guide

\* commit_changes: the commit is made, or git fails and the failure is
\* logged, or git cannot be run and run() exits with status 1
CommitChanges ==
    /\ gpc = "commit"
    /\ commit_attempts' = commit_attempts + 1
    /\ \/ commits' = commits + 1 /\ gpc' = "outputs" /\ UNCHANGED guide_exit
       \/ gpc' = "outputs" /\ UNCHANGED <<commits, guide_exit>>
       \/ guide_exit' = Some(1) /\ gpc' = "done" /\ UNCHANGED commits
    /\ UNCHANGED <<style_mode, confidence_threshold, github_output_set, in_pr,
                   docs, disk, all_suggestions, changes_made, written, review,
                   outputs, logged_changes>>
    /\ UNCHANGED but_guide

\* set_outputs and the last line of the log
SetOutputs ==
    /\ gpc = "outputs"
    /\ outputs' = IF github_output_set
                  THEN Some(style_outputs(Len(docs), Len(all_suggestions),
                                          changes_made))
                  ELSE None
    /\ logged_changes' = Some(changes_made)
    /\ guide_exit' = Some(0)
    /\ gpc' = "done"
    /\ UNCHANGED <<style_mode, confidence_threshold, github_output_set, in_pr,
                   docs, disk, all_suggestions, changes_made, written,
                   commit_attempts, commits, review>>
    /\ UNCHANGED but_guide

NextGuide == Analyze \/ ReviewPr \/ ApplyChanges \/ CommitChanges \/ SetOutputs

SpecGuide == InitGuide /\ [][NextGuide]_vars

---------------------------------------------------------------------------
(* C15: the two modes of the style-guide checker *)

HighSuggestions == {k \in DOMAIN all_suggestions : all_suggestions[k].confidence = "high"}

\* the line is as before the run, or is the text of a HIGH suggestion made
\* for that line of that file
UnchangedOrHigh(f, n) ==
    \/ disk[f][n] = InitialDisk[f][n]
    \/ \E k \in HighSuggestions :
          /\ all_suggestions[k].file_path = f
          /\ all_suggestions[k].line_number = n
          /\ all_suggestions[k].suggested_text = disk[f][n]

---------------------------------------------------------------------------
(* Properties of the lists of the link checker, checked under SpecLinks *)

\* what one step does to the two lists: a check appends its result to
\* broken_results when it is broken and not silent, else to redirect_results
\* when it is redirected, else to neither; no other step changes a list
C21_Step ==
    IF idx' = idx + 1
    THEN LET r == result'[1]
             to_broken == r.broken /\ ~r.silent
             to_redirect == ~to_broken /\ r.redirected
         IN  /\ ~(to_broken /\ to_redirect)
             /\ broken_results' = IF to_broken THEN Append(broken_results, r)
                                  ELSE broken_results
             /\ redirect_results' = IF to_redirect
                                    THEN Append(redirect_results, r)
                                    ELSE redirect_results
    ELSE UNCHANGED <<broken_results, redirect_results>>

\* C21: each checked link is in at most one of the two lists: starting
\* from empty lists, broken_results receives exactly the results with broken
\* True and silent False, redirect_results exactly the remaining results
\* with redirected True (silent and likely bot-blocked ones included), and a
\* result that is neither is appended to no list.
C21_OneListPerResult ==
    /\ broken_results = <<>> /\ redirect_results = <<>>
    /\ [][C21_Step]_vars

C21_Witness ==
    /\ mpc = "done"
    /\ Len(broken_results) = 1 /\ Len(redirect_results) = 1
    /\ broken_results[1].redirected
    /\ redirect_results[1].silent /\ redirect_results[1].likely_bot_blocked
    /\ result = Some(redirect_results[1])

\* the number of anchors of the file with an external href, each occurrence
\* counted
ExternalOccurrences ==
    IF html = None THEN 0
    ELSE Cardinality({k \in 1..Len(html[1]) : is_external_link(html[1][k].href)})

\* C22: total_links is the number of external links extracted, duplicates
\* counted; every extracted link is checked exactly once; the two lists
\* together never hold more than total_links results; and with no link
\* extracted the output has empty lists and total_links 0 and no request
\* is made.
C22_TotalLinks ==
    /\ requests = idx /\ requests <= ExternalOccurrences
    /\ result # None =>
          /\ result[1].url = links[idx].url
          /\ result[1].text = links[idx].text
    /\ Len(broken_results) + Len(redirect_results) <= requests
    /\ output # None =>
          /\ output[1].total_links = ExternalOccurrences
          /\ requests = output[1].total_links
          /\ Len(output[1].broken_results) + Len(output[1].redirect_results)
                <= output[1].total_links
          /\ ExternalOccurrences = 0 =>
                /\ output[1].broken_results = <<>>
                /\ output[1].redirect_results = <<>>
                /\ output[1].ai_suggestions = <<>>
                /\ requests = 0

C22_Witness ==
    /\ output # None /\ output[1].total_links = 2
    /\ links[1] = links[2]
    /\ requests = 2
    /\ Len(output[1].broken_results) = 2

---------------------------------------------------------------------------
(* Properties of the classifier's tests, checked under Spec *)

\* the host of a URL: the text between "://" and the next "/", "?" or "#"
HostName(u) ==
    LET n == Len(u)
        marks == {i \in 1..n : i + 2 <= n /\ SubSeq(u, i, i + 2) = <<":","/","/">>}
        first == IF marks = {} THEN 1
                 ELSE (CHOOSE i \in marks : \A j \in marks : i <= j) + 3
        stops == {j \in first..n : u[j] \in {"/", "?", "#"}}
        last == IF stops = {} THEN n
                ELSE (CHOOSE j \in stops : \A k \in stops : j <= k) - 1
    IN  SubSeq(u, first, last)

\* the domain is written at position i of the URL, in any letter case
OccursAt(d, u, i) ==
    i + Len(d) - 1 <= Len(u) /\ lower(SubSeq(u, i, i + Len(d) - 1)) = d

OccursAnywhere(d, u) == \E i \in 1..Len(u) : OccursAt(d, u, i)

\* C23: the domain test is a case-insensitive substring test over the
\* whole URL, not over its host: a URL in which a bot-prone domain is
\* written anywhere, in any letter case, gives True; the lower-cased URL is
\* classified as the URL is; and with no error and no status code the
\* answer is True exactly for the URLs in which a bot-prone domain occurs.
C23_WholeUrlAnyCase ==
    Returned =>
        /\ (\E d \in BotProne : OccursAnywhere(d, url)) => ret = TRUE
        /\ is_likely_bot_blocked(lower(url), response_content, status_code, error)
              = ret
        /\ error = None /\ status_code = None =>
              (ret = TRUE <=> \E d \in BotProne : OccursAnywhere(d, url))

C23_Witness ==
    /\ Returned /\ error = None /\ status_code = None
    /\ \E d \in BotProne : OccursAnywhere(d, url) /\ ~In(d, url)
    /\ \A d \in BotProne : ~OccursAnywhere(d, HostName(url))
    /\ ret = TRUE

\* C24: the 'Connection Error' test is case-sensitive and the 'encoding'
\* test is not: for a URL with a legitimate domain and no bot-prone one, and
\* no status code, the errors 'connection error' and 'CONNECTION ERROR' give
\* False and 'Connection Error' gives True, while 'encoding' gives True in
\* any letter case.
C24_CaseOfErrorTests ==
    Returned /\ UrlHasLegitimate(url) /\ ~UrlHasBotProne(url)
             /\ status_code = None =>
        /\ error \in {Some(<<"c","o","n","n","e","c","t","i","o","n"," ","e","r","r","o","r">>), Some(<<"C","O","N","N","E","C","T","I","O","N"," ","E","R","R","O","R">>)}
              => ret = FALSE
        /\ error = Some(<<"C","o","n","n","e","c","t","i","o","n"," ","E","r","r","o","r">>) => ret = TRUE
        /\ error # None /\ lower(error[1]) = <<"b","a","d"," ","e","n","c","o","d","i","n","g"," ","i","n"," ","h","e","a","d","e","r">>
              => ret = TRUE
        /\ error # None =>
              (ret = TRUE <=> \/ In(<<"C","o","n","n","e","c","t","i","o","n"," ","E","r","r","o","r">>, error[1])
                              \/ In(<<"e","n","c","o","d","i","n","g">>, lower(error[1])))

C24_Witness ==
    /\ Returned /\ UrlHasLegitimate(url) /\ ~UrlHasBotProne(url)
    /\ status_code = None /\ error = Some(<<"C","O","N","N","E","C","T","I","O","N"," ","E","R","R","O","R">>)
    /\ ret = FALSE

\* C25: the response body never influences the answer: for the URL, the
\* status code and the error of a call, every response body, the absent one
\* included, gives the value that was returned.
C25_BodyIgnored ==
    Returned =>
        \A rc \in Contents :
            is_likely_bot_blocked(url, rc, status_code, error) = ret

C25_Witness ==
    /\ Returned
    /\ response_content = Some(<<"4","2","9"," ","n","e","t","f","l","i","x",".","c","o","m",":"," ","C","o","n","n","e","c","t","i","o","n"," ","E","r","r","o","r",","," ","e","n","c","o","d","i","n","g">>)
    /\ ~UrlHasBotProne(url) /\ ~UrlHasLegitimate(url)
    /\ error = None /\ status_code = Some(200)
    /\ ret = FALSE

\* C26: the two domain lists have no entry in common, and a URL matching
\* entries of both lists gives True for every error and every status code,
\* no error and no status code included.
C26_BothListsIsBlocked ==
    /\ BotProne \cap Legitimate = {}
    /\ Returned /\ UrlHasBotProne(url) /\ UrlHasLegitimate(url) =>
          ret = TRUE

C26_Witness ==
    /\ Returned /\ UrlHasBotProne(url) /\ UrlHasLegitimate(url)
    /\ error = None /\ status_code = Some(404)
    /\ ret = TRUE

===========================================================================
